---- MODULE Spec2Model ----
(***************************************************************************)
(* Spectrometer: the spectral extraction and calibration pipeline.         *)
(*                                                                         *)
(*   CalibrationModel  src/calibration/calibration_model.py                *)
(*   AutoLineDetector  src/core/line_detector.py                           *)
(*   SpectrumSampler   src/core/spectrum_sampler.py                        *)
(*                                                                         *)
(* Three specifications share the module, one per component:               *)
(*   SpecCal   the calibration model as a state machine                    *)
(*   SpecDet   detect() applied to bounded images                          *)
(*   SpecSamp  extract_cross_section() applied to bounded images and paths *)
(* Python None is the empty tuple; an Optional value that is present is    *)
(* never the empty tuple.  Floating point values are fixed point integers  *)
(* with the scales named below.                                            *)
(***************************************************************************)
EXTENDS Integers, Sequences, FiniteSets, TLC

VARIABLES
    \* CalibrationModel
    polynomial_order,   \* self.polynomial_order
    points,             \* self.points: sequence of CalibrationPoint
    coefficients,       \* self.coefficients: None or the array of np.polyfit
    fit_quality,        \* self._fit_quality: None or the quality record
    last,               \* the most recent call on the model and its outcome
    since,              \* the most recent add/remove/clear call or successful fit
    \* AutoLineDetector
    detector,           \* the constructor's parameters
    gray,               \* the grayscale image handed to detect
    detected,           \* what detect did: stage outcomes and the return value
    \* SpectrumSampler
    sampling,           \* the arguments of extract_cross_section / extract_color_strip
    profile,            \* the outcome of extract_cross_section
    strip,              \* the outcome of extract_color_strip
    \* PeakDetector
    detection,          \* the detector's parameters and the arguments of detect_peaks
    peaks,              \* the outcome of detect_peaks
    refined,            \* a call of _refine_peak_position: its arguments and its result
    \* ProfileManager
    store,              \* the file system: the working directory and the profile files
    loaded,             \* the most recent to_dict / from_dict / save / load call and its outcome
    \* VideoManager
    frame_queue,        \* self._frame_queue: the frames queued, oldest first
    frame_count,        \* self.frame_count
    drop_count,         \* self.drop_count
    capture,            \* the capture thread: where it is in _capture_loop, its frame
    reader,             \* the reading thread: where it is in read_frame, its frame
    is_running,         \* self.is_running
    cap,                \* self.cap: None, or whether the VideoCapture is opened
    session,            \* the thread that calls connect / disconnect: where it is
    stale,              \* a capture thread that outlived the join of disconnect
    \* CalibrationWidget and MainWindow
    widget,             \* the CalibrationModel object that self.model names
    window              \* self.calibration_model and what the analysis applied

calVars  == <<polynomial_order, points, coefficients, fit_quality, last, since>>
detVars  == <<detector, gray, detected>>
sampVars == <<sampling, profile, strip>>
peakVars  == <<detection, peaks, refined>>
storeVars == <<store, loaded>>
videoVars == <<frame_queue, frame_count, drop_count, capture, reader,
               is_running, cap, session, stale>>
uiVars    == <<widget, window>>
\* the variables of the other components, which a component leaves alone
besidesCal   == <<detVars, sampVars, peakVars, storeVars, videoVars, uiVars>>
besidesDet   == <<calVars, sampVars, peakVars, storeVars, videoVars, uiVars>>
besidesSamp  == <<calVars, detVars, peakVars, storeVars, videoVars, uiVars>>
besidesPeak  == <<calVars, detVars, sampVars, storeVars, videoVars, uiVars>>
besidesStore == <<detVars, sampVars, peakVars, videoVars, uiVars>>
besidesVideo == <<calVars, detVars, sampVars, peakVars, storeVars, uiVars>>
vars     == <<polynomial_order, points, coefficients, fit_quality, last, since,
              detector, gray, detected, sampling, profile, strip,
              detection, peaks, refined, store, loaded,
              frame_queue, frame_count, drop_count, capture, reader,
              is_running, cap, session, stale, widget, window>>

None == <<>>

Min(a, b) == IF a < b THEN a ELSE b
Max(a, b) == IF a > b THEN a ELSE b
Abs(a) == IF a < 0 THEN -a ELSE a

(***************************************************************************)
(* Bounds                                                                  *)
(***************************************************************************)
MaxPoints == 3      \* calibration points held by the model
MaxOrder  == 3      \* polynomial orders passed to fit and to the constructor

Pixels      == {100, 300}
Wavelengths == {405, 532}
Labels      == {None}
Orders      == 1..MaxOrder
Indices     == (-1)..MaxPoints      \* arguments of remove_point

(***************************************************************************)
(* CalibrationPoint (dataclass)                                            *)
(***************************************************************************)
CalibrationPoint(pixel, wavelength, label) ==
    [pixel |-> pixel, wavelength |-> wavelength, label |-> label]

PixelsOf(pts)      == [i \in 1..Len(pts) |-> pts[i].pixel]
WavelengthsOf(pts) == [i \in 1..Len(pts) |-> pts[i].wavelength]

\* list.pop(index) for 0 <= index < len
Pop(pts, index) ==
    [i \in 1..(Len(pts) - 1) |-> IF i <= index THEN pts[i] ELSE pts[i + 1]]

(***************************************************************************)
(* np.polyfit(x, y, deg): the array of deg+1 coefficients, highest power   *)
(* first.  The k-th entry stands for the k-th least-squares coefficient of *)
(* the data (x, y) at degree deg.                                          *)
(***************************************************************************)
Polyfit(x, y, deg) ==
    [k \in 1..(deg + 1) |-> [power |-> deg + 1 - k, deg |-> deg, x |-> x, y |-> y]]

\* np.polyval(coefficients, x): the value of that polynomial at x
Polyval(coeffs, x) == [poly |-> coeffs, at |-> x]

\* _calculate_fit_quality: the metrics of the fitted polynomial on the data
FitQuality(coeffs, pixels, wavelengths) ==
    LET residuals == [i \in 1..Len(pixels) |->
                        [y |-> wavelengths[i], pred |-> Polyval(coeffs, pixels[i])]]
    IN  [r_squared |-> [of |-> residuals],
         rmse      |-> [of |-> residuals],
         max_error |-> [of |-> residuals],
         residuals |-> residuals]

is_fitted == coefficients # None
get_fit_quality == fit_quality

(***************************************************************************)
(* The record of a call: its name, its arguments, whether it raised, the   *)
(* boolean it returned and the value it returned.                          *)
(***************************************************************************)
Call(op, index, order, arg, raised, ok, value) ==
    [op |-> op, index |-> index, order |-> order, arg |-> arg,
     raised |-> raised, ok |-> ok, value |-> value]

\* a mutating call: its name, its index argument, and the number of points and
\* is_fitted() just before it
Mutation(op, index, n, fitted) ==
    [op |-> op, index |-> index, n |-> n, fitted |-> fitted]

(***************************************************************************)
(* CalibrationModel                                                        *)
(***************************************************************************)
CalInit(order) ==
    /\ polynomial_order = order
    /\ points = <<>>
    /\ coefficients = None
    /\ fit_quality = None
    /\ last = Call("__init__", 0, <<order>>, None, FALSE, TRUE, None)
    /\ since = Mutation("__init__", 0, 0, FALSE)

\* add_point without the invalidation of the fit
add_point_keeps_fit(pixel, wavelength, label) ==
    /\ Len(points) < MaxPoints
    /\ points' = Append(points, CalibrationPoint(pixel, wavelength, label))
    /\ last' = Call("add_point", 0, None, <<pixel, wavelength, label>>, FALSE, TRUE, None)
    /\ since' = Mutation("add_point", 0, Len(points), is_fitted)
    /\ UNCHANGED <<polynomial_order, coefficients, fit_quality>>

add_point(pixel, wavelength, label) ==
    /\ Len(points) < MaxPoints
    /\ points' = Append(points, CalibrationPoint(pixel, wavelength, label))
    /\ coefficients' = None
    /\ fit_quality' = None
    /\ last' = Call("add_point", 0, None, <<pixel, wavelength, label>>, FALSE, TRUE, None)
    /\ since' = Mutation("add_point", 0, Len(points), is_fitted)
    /\ UNCHANGED polynomial_order

\* the guard of remove_point off by one at the low end
RemoveGuard_from_one(index, n) == 1 <= index /\ index < n

\* the guard of remove_point letting Python's negative indices through
RemoveGuard_negative(index, n) == index < n /\ n > 0

\* remove_point: the guard under which a point is popped
RemoveGuard(index, n) == 0 <= index /\ index < n

remove_point(index) ==
    /\ IF RemoveGuard(index, Len(points))
         THEN /\ points' = Pop(points, index)
              /\ coefficients' = None
              /\ fit_quality' = None
         ELSE UNCHANGED <<points, coefficients, fit_quality>>
    /\ last' = Call("remove_point", index, None, None, FALSE, TRUE, None)
    /\ since' = Mutation("remove_point", index, Len(points), is_fitted)
    /\ UNCHANGED polynomial_order

\* clear_points leaving the quality metrics of the old fit behind
clear_points_keeps_quality ==
    /\ points' = <<>>
    /\ coefficients' = None
    /\ last' = Call("clear_points", 0, None, None, FALSE, TRUE, None)
    /\ since' = Mutation("clear_points", 0, Len(points), is_fitted)
    /\ UNCHANGED <<polynomial_order, fit_quality>>

clear_points ==
    /\ points' = <<>>
    /\ coefficients' = None
    /\ fit_quality' = None
    /\ last' = Call("clear_points", 0, None, None, FALSE, TRUE, None)
    /\ since' = Mutation("clear_points", 0, Len(points), is_fitted)
    /\ UNCHANGED polynomial_order

\* def __init__(self, polynomial_order: int = 2)
DefaultOrder == 2

\* fit without an order argument going back to the constructor's default
RequestedOrder_default(order) == IF order # None THEN order[1] ELSE DefaultOrder

\* fit: the order the fit ends up using, given the order argument (None or <<k>>)
RequestedOrder(order) == IF order # None THEN order[1] ELSE polynomial_order

\* fit without the downgrade
LoweredOrder_kept(requested, n) == requested

\* fit: the order after the check against the number of points
LoweredOrder(requested, n) ==
    IF n < requested + 1 THEN Min(requested, n - 1) ELSE requested

\* fit: the number of points below which fit returns False
MinFitPoints == 2

\* fit assigning the order argument before it counts the points
OrderAfterFailedFit_assigned(order) == RequestedOrder(order)

\* fit: the polynomial_order left behind by a call that returns False
OrderAfterFailedFit(order) == polynomial_order

fit(order) ==
    IF Len(points) < MinFitPoints
      THEN /\ polynomial_order' = OrderAfterFailedFit(order)
           /\ last' = Call("fit", 0, order, None, FALSE, FALSE, None)
           /\ UNCHANGED <<points, coefficients, fit_quality, since>>
      ELSE LET deg == LoweredOrder(RequestedOrder(order), Len(points))
               pixels == PixelsOf(points)
               wavelengths == WavelengthsOf(points)
               coeffs == Polyfit(pixels, wavelengths, deg)
           IN  /\ polynomial_order' = deg
               /\ coefficients' = coeffs
               /\ fit_quality' = FitQuality(coeffs, pixels, wavelengths)
               /\ last' = Call("fit", 0, order, None, FALSE, TRUE, None)
               /\ since' = Mutation("fit", 0, Len(points), is_fitted)
               /\ UNCHANGED points

\* the mappings without their guard
MappingGuard_off == TRUE

\* the guard of both mappings: raise ValueError unless this holds
MappingGuard == coefficients # None

pixel_to_wavelength(pixel) ==
    /\ IF ~MappingGuard
         THEN last' = Call("pixel_to_wavelength", 0, None, <<pixel>>, TRUE, FALSE, None)
         ELSE last' = Call("pixel_to_wavelength", 0, None, <<pixel>>, FALSE, TRUE,
                           <<Polyval(coefficients, pixel)>>)
    /\ UNCHANGED <<polynomial_order, points, coefficients, fit_quality, since>>

\* order 1: (wavelength - b) / a; order >= 2: fsolve of polyval - wavelength
\* from the midpoint of the calibrated pixels.  fsolve(objective, x0)[0] is
\* the iterate fsolve stopped at; when it has not converged fsolve warns and
\* returns that iterate all the same.
InversePixel(wavelength, converged) ==
    IF polynomial_order = 1
      THEN [linear |-> coefficients, of |-> wavelength]
      ELSE [fsolve |-> coefficients, of |-> wavelength, x0 |-> PixelsOf(points),
            converged |-> converged]

\* the fitted polynomial is the parabola through three points of distinct
\* pixels and never takes the value wavelength: polyval - wavelength has a
\* negative discriminant
NoRealRoot(wavelength) ==
    /\ polynomial_order = 2
    /\ Len(points) = 3
    /\ points[1].pixel # points[2].pixel
    /\ points[1].pixel # points[3].pixel
    /\ points[2].pixel # points[3].pixel
    /\ LET x1 == points[1].pixel
           x2 == points[2].pixel
           x3 == points[3].pixel
           y1 == points[1].wavelength
           y2 == points[2].wavelength
           y3 == points[3].wavelength
           D  == (x2 - x1) * (x3 - x1) * (x3 - x2)
           A  == (y3 - y1) * (x2 - x1) - (y2 - y1) * (x3 - x1)
           S  == (y2 - y1) * (x3 - x1) * (x3 - x2)
           B  == S - A * (x1 + x2)
           C  == (y1 - wavelength) * D - S * x1 + A * x1 * x2
       IN  B * B - 4 * A * C < 0

\* whether fsolve can end converged: not where there is no root to find
FsolveOutcomes(wavelength) ==
    IF NoRealRoot(wavelength) THEN {FALSE} ELSE BOOLEAN

wavelength_to_pixel(wavelength, converged) ==
    /\ IF ~MappingGuard
         THEN last' = Call("wavelength_to_pixel", 0, None, <<wavelength>>,
                           TRUE, FALSE, None)
         ELSE /\ converged \in FsolveOutcomes(wavelength)
              /\ last' = Call("wavelength_to_pixel", 0, None, <<wavelength>>, FALSE, TRUE,
                              <<InversePixel(wavelength, converged)>>)
    /\ UNCHANGED <<polynomial_order, points, coefficients, fit_quality, since>>

(***************************************************************************)
(* AutoLineDetector                                                        *)
(*                                                                         *)
(* An image is a sequence of rows (y = 0 is row 1), each a sequence of     *)
(* uint8 values.  Row means are kept as row sums (all rows have the same   *)
(* width), so every comparison of the code is made exactly, on integers.   *)
(* A float that is a quotient is the pair of its numerator and its         *)
(* denominator; 0/0 is NaN.                                                *)
(***************************************************************************)
MaxHeight == 4      \* image rows
MaxWidth  == 2      \* image columns
MaxLines  == 2      \* segments returned by one HoughLinesP call

BinaryLevels  == {0, 255}
UniformLevels == {0, 1, 128, 255}
MinLineLengths == {1, 2}

Height(img) == Len(img)
Width(img)  == Len(img[1])

Uniform(img) ==
    \A y1 \in 1..Height(img), x1 \in 1..Width(img) : img[y1][x1] = img[1][1]

RECURSIVE SumTo(_, _)
SumTo(f, n) == IF n = 0 THEN 0 ELSE f[n] + SumTo(f, n - 1)
Sum(f) == SumTo(f, Len(f))

RECURSIVE ISqrtIn(_, _, _)
ISqrtIn(n, lo, hi) ==
    IF lo >= hi THEN lo
    ELSE LET mid == (lo + hi + 1) \div 2
         IN  IF mid * mid <= n THEN ISqrtIn(n, mid, hi) ELSE ISqrtIn(n, lo, mid - 1)
\* int(np.sqrt(n)) for an integer n >= 0
ISqrt(n) == ISqrtIn(n, 0, Min(n, 46340))

Float(num, den) == [num |-> num, den |-> den]
IsNaN(a) == a.den = 0 /\ a.num = 0
\* a < b and a > b on floats; every comparison with NaN is False
Less(a, b)    == ~IsNaN(a) /\ ~IsNaN(b) /\ a.num * b.den < b.num * a.den
Greater(a, b) == Less(b, a)
\* Python's min(first, second): second if second < first, else first
PyMin(first, second) == IF Less(second, first) THEN second ELSE first

\* np.mean(gray, axis=1), times the width
HorizontalProfile(img) == [y \in 1..Height(img) |-> Sum(img[y])]

\* gaussian_filter1d(profile, sigma = height * 0.02): the kernel reaches
\* int(4 * sigma + 0.5) samples to each side
GaussianRadius(height) == (8 * height + 50) \div 100
\* the kernel of radius 0 (every height up to 6) is the single weight 1, and
\* the correlation with it returns the profile; InitDet keeps to such heights
GaussianFilter1d(prof, height) == prof

\* np.argmax: the first index (0-based) of the maximum
ArgMax(prof) ==
    (CHOOSE i \in 1..Len(prof) :
        /\ \A j \in 1..Len(prof) : prof[j] <= prof[i]
        /\ \A j \in 1..(i - 1) : prof[j] < prof[i]) - 1

\* while y_min > 0 and above_half[y_min]: y_min -= 1
RECURSIVE WalkDown(_, _)
WalkDown(above, y) ==
    IF y > 0 /\ above[y + 1] THEN WalkDown(above, y - 1) ELSE y

\* while y_max < height - 1 and above_half[y_max]: y_max += 1
RECURSIVE WalkUp(_, _)
WalkUp(above, y) ==
    IF y < Len(above) - 1 /\ above[y + 1] THEN WalkUp(above, y + 1) ELSE y

\* LineResult; the angle is kept as the direction <<dy, dx>> it is the atan2 of
LineResult(pts, confidence, is_curved, angle) ==
    <<[points |-> pts, confidence |-> confidence, is_curved |-> is_curved,
       angle |-> angle]>>

\* the test of significance: peak_value < mean_value * 1.2, on sums
\* (peak = peakSum / width, mean = total / (width * height))
NotSignificant(peakSum, total, height) == peakSum * height * 10 < total * 12

\* the division of the confidence: (peak_value - mean_value) / mean_value
Prominence(peakSum, total, height) == Float(peakSum * height - total, total)

\* _detect_by_brightness: None or a LineResult
DetectByBrightness(img) ==
    LET height   == Height(img)
        width    == Width(img)
        smoothed == GaussianFilter1d(HorizontalProfile(img), height)
        total    == Sum(smoothed)
        peak_y   == ArgMax(smoothed)
        peak     == smoothed[peak_y + 1]
        \* smoothed_profile > half_max, half_max = (peak_value + mean_value) / 2
        above    == [y \in 1..height |-> 2 * smoothed[y] * height > peak * height + total]
        y_min    == WalkDown(above, peak_y)
        y_max    == WalkUp(above, peak_y)
        y_center == (y_min + y_max) \div 2
        thick    == y_max - y_min
    IN  IF NotSignificant(peak, total, height) THEN None
        ELSE IF thick * 10 > height * 3 THEN None
        ELSE LineResult(<<<<0, y_center>>, <<width - 1, y_center>>>>,
                        PyMin(Float(1, 1), Prominence(peak, total, height)),
                        FALSE, <<0, 1>>)

\* a segment of HoughLinesP: <<x1, y1, x2, y2>>
Length2(seg) == (seg[3] - seg[1]) * (seg[3] - seg[1]) + (seg[4] - seg[2]) * (seg[4] - seg[2])

\* angle_deg < 20 or angle_deg > 160, angle_deg = |atan2(dy, dx)| in degrees:
\* |dy| < tan(20 deg) * |dx|, tan(20 deg) = 0.363970...; atan2(0, 0) = 0
Horizontalish(seg) ==
    LET dx == seg[3] - seg[1]
        dy == seg[4] - seg[2]
    IN  \/ dx = 0 /\ dy = 0
        \/ dx # 0 /\ Abs(dy) * 1000000 < 363970 * Abs(dx)

\* the score without the bonus for horizontal lines
Score2_plain(seg) == 4 * Length2(seg)

\* length_score squared, times 4: (1.5 * length)^2 or length^2
Score2(seg) == IF Horizontalish(seg) THEN 9 * Length2(seg) ELSE 4 * Length2(seg)

\* the loop over lines: the best line after the first n segments (None or <<seg>>)
RECURSIVE BestLine(_, _)
BestLine(lines, n) ==
    IF n = 0 THEN None
    ELSE LET before == BestLine(lines, n - 1)
             best_length == IF before = None THEN 0 ELSE Score2(before[1])
         IN  IF Score2(lines[n]) > best_length THEN <<lines[n]>> ELSE before

\* the segments the model lets HoughLinesP report on an image: along the top
\* row in both directions, down the left column, and the main diagonal, each
\* at least min_line_length long
Segments(img, min_line_length) ==
    LET w == Width(img) - 1
        h == Height(img) - 1
    IN  {seg \in {<<0, 0, w, 0>>, <<w, 0, 0, 0>>, <<0, 0, 0, h>>, <<0, 0, w, h>>} :
            /\ Length2(seg) > 0
            /\ Length2(seg) >= min_line_length * min_line_length}

SeqsUpTo(S, n) == UNION {[1..k -> S] : k \in 1..n}

\* cv2.Canny followed by cv2.HoughLinesP: None, or a non-empty list of
\* segments.  A uniform image has no gradient, hence no edge pixel and no
\* segment; on any other image the outcome is the library's.
HoughLinesP(img, min_line_length) ==
    IF Uniform(img) THEN {None}
    ELSE {None} \cup SeqsUpTo(Segments(img, min_line_length), MaxLines)

\* _detect_by_edges, given the lines HoughLinesP returned
DetectByEdges(img, lines) ==
    IF lines = None THEN None
    ELSE LET best_line == BestLine(lines, Len(lines))
         IN  IF best_line = None THEN None
             ELSE LET seg == best_line[1]
                      width == Width(img)
                      \* min(1.0, length / width), length to 1/1000
                      confidence ==
                          PyMin(Float(1, 1),
                                Float(ISqrt(Length2(seg) * 1000000), 1000 * width))
                  IN  LineResult(<<<<seg[1], seg[2]>>, <<seg[3], seg[4]>>>>,
                                 confidence, FALSE, <<seg[4] - seg[2], seg[3] - seg[1]>>)

\* detect: line_result is not None and line_result.confidence > 0.5
\* the gate taken literally as "a candidate was produced"
ConfidenceGate_any(line_result) == line_result # None

ConfidenceGate(line_result) ==
    line_result # None /\ Greater(line_result[1].confidence, Float(1, 2))

\* detect falling back on the brightness candidate when the edge method fails
detect_fallback(lines) ==
    /\ detected = None
    /\ LET brightness == DetectByBrightness(gray)
       IN  IF ConfidenceGate(brightness)
             THEN /\ lines = None
                  /\ detected' = <<[brightness |-> brightness, edge_used |-> FALSE,
                                    lines |-> None, edge |-> None,
                                    result |-> brightness]>>
             ELSE LET edge == DetectByEdges(gray, lines)
                  IN  detected' = <<[brightness |-> brightness, edge_used |-> TRUE,
                                     lines |-> lines, edge |-> edge,
                                     result |-> IF edge = None THEN brightness
                                                ELSE edge]>>
    /\ UNCHANGED <<detector, gray>>

\* detect(image), with the outcome of the library calls made on the way
detect(lines) ==
    /\ detected = None
    /\ LET brightness == DetectByBrightness(gray)
       IN  IF ConfidenceGate(brightness)
             THEN /\ lines = None
                  /\ detected' = <<[brightness |-> brightness, edge_used |-> FALSE,
                                    lines |-> None, edge |-> None,
                                    result |-> brightness]>>
             ELSE LET edge == DetectByEdges(gray, lines)
                  IN  detected' = <<[brightness |-> brightness, edge_used |-> TRUE,
                                     lines |-> lines, edge |-> edge,
                                     result |-> edge]>>
    /\ UNCHANGED <<detector, gray>>

DetImages ==
    UNION {[1..h -> [1..w -> BinaryLevels]] \cup {[y \in 1..h |-> [x \in 1..w |-> c]] :
                                                     c \in UniformLevels} :
           h \in 1..MaxHeight, w \in 1..MaxWidth}

(***************************************************************************)
(* SpectrumSampler                                                         *)
(*                                                                         *)
(* Coordinates are fixed point with CoordScale units to the pixel; linear  *)
(* intensities are fixed point with 10000 units to 1.0, and an             *)
(* interpolated intensity carries the factor CoordScale^2 of its weights.  *)
(***************************************************************************)
CoordScale  == 100    \* coordinate units per pixel
SampWidth   == 3      \* image columns
SampHeight  == 2      \* image rows
MaxPath     == 3      \* points of a path
MaxThickness == 3     \* sampling thickness

SampLevels == {0, 10, 128, 255}
Smoothings == {None, <<4>>}

\* srgb_to_linear(v / 255) for a uint8 v, in 1/10000: v / 12.92 up to
\* 0.04045, ((v + 0.055) / 1.055) ^ 2.4 above (tabulated)
SrgbToLinear(v) ==
    IF v * 100000 <= 4045 * 255
      THEN (v * 1000000) \div (255 * 1292)
      ELSE CASE v = 128 -> 2159
             [] v = 255 -> 10000

\* bgr_to_linear_rgb and rgb_to_intensity of a grayscale image: elementwise
IntensityImage(img) ==
    [y \in 1..Height(img) |-> [x \in 1..Width(img) |-> SrgbToLinear(img[y][x])]]

\* bgr_to_linear_rgb of a colour image: cv2.COLOR_BGR2RGB, then srgb_to_linear
BgrToLinearRgb(img) ==
    [y \in 1..Height(img) |->
        [x \in 1..Width(img) |->
            <<SrgbToLinear(img[y][x][3]), SrgbToLinear(img[y][x][2]),
              SrgbToLinear(img[y][x][1])>>]]

\* rgb_to_intensity: np.dot(image, [0.2126, 0.7152, 0.0722])
RgbToIntensity(linear_rgb) ==
    [y \in 1..Height(linear_rgb) |->
        [x \in 1..Width(linear_rgb) |->
            (2126 * linear_rgb[y][x][1] + 7152 * linear_rgb[y][x][2]
             + 722 * linear_rgb[y][x][3]) \div 10000]]

Clamp(q, lo, hi) == IF q < lo THEN lo ELSE IF q > hi THEN hi ELSE q

\* map_coordinates called with the two coordinate rows in the order [x, y]
MapCoordinates_swapped(img, yq, xq) ==
    LET xc == Clamp(yq, 0, (Width(img) - 1) * CoordScale)
        yc == Clamp(xq, 0, (Height(img) - 1) * CoordScale)
        x0 == xc \div CoordScale
        y0 == yc \div CoordScale
        fx == xc - x0 * CoordScale
        fy == yc - y0 * CoordScale
        x1 == Min(x0 + 1, Width(img) - 1)
        y1 == Min(y0 + 1, Height(img) - 1)
    IN  (CoordScale - fy) * ((CoordScale - fx) * img[y0 + 1][x0 + 1] + fx * img[y0 + 1][x1 + 1])
        + fy * ((CoordScale - fx) * img[y1 + 1][x0 + 1] + fx * img[y1 + 1][x1 + 1])

\* map_coordinates(image, [[y], [x]], order=1, mode='nearest') at one point:
\* bilinear interpolation, coordinates outside the image clamped to its edge
MapCoordinates(img, yq, xq) ==
    LET xc == Clamp(xq, 0, (Width(img) - 1) * CoordScale)
        yc == Clamp(yq, 0, (Height(img) - 1) * CoordScale)
        x0 == xc \div CoordScale
        y0 == yc \div CoordScale
        fx == xc - x0 * CoordScale
        fy == yc - y0 * CoordScale
        x1 == Min(x0 + 1, Width(img) - 1)
        y1 == Min(y0 + 1, Height(img) - 1)
    IN  (CoordScale - fy) * ((CoordScale - fx) * img[y0 + 1][x0 + 1] + fx * img[y0 + 1][x1 + 1])
        + fy * ((CoordScale - fx) * img[y1 + 1][x0 + 1] + fx * img[y1 + 1][x1 + 1])

\* np.linspace(start, stop, num)[j], in coordinate units (0-based j)
Linspace(start, stop, num, j) ==
    IF num = 1 THEN start ELSE start + (j * (stop - start)) \div (num - 1)

\* offsets = np.linspace(-thickness / 2, thickness / 2, thickness)
Offsets(thickness) ==
    [j \in 1..thickness |->
        Linspace((-(thickness * CoordScale)) \div 2, (thickness * CoordScale) \div 2,
                 thickness, j - 1)]

\* np.mean replaced by np.sum
Mean_as_sum(values) == Sum(values)

\* np.mean(sampled_values)
Mean(values) == Sum(values) \div Len(values)

\* length = int(np.sqrt((x2 - x1)**2 + (y2 - y1)**2))
SegmentLength(point1, point2) ==
    ISqrt((point2[1] - point1[1]) * (point2[1] - point1[1])
          + (point2[2] - point1[2]) * (point2[2] - point1[2]))

\* t = np.linspace(0, 1, length); x_line = x1 + t * (x2 - x1), y_line
\* likewise: the point of the k-th sample (0-based k), in coordinate units
LinePoint(point1, point2, length, k) ==
    <<Linspace(point1[1] * CoordScale, point2[1] * CoordScale, length, k),
      Linspace(point1[2] * CoordScale, point2[2] * CoordScale, length, k)>>

\* _sample_straight_line for length > 0: the loop over the positions
SampleSegment(intensity_image, point1, point2, thickness, length) ==
    LET dx   == point2[1] - point1[1]
        dy   == point2[2] - point1[2]
        norm == ISqrt((dx * dx + dy * dy) * CoordScale * CoordScale)
        offsets == Offsets(thickness)
    IN  [i \in 1..length |->
            LET x_line == LinePoint(point1, point2, length, i - 1)[1]
                y_line == LinePoint(point1, point2, length, i - 1)[2]
                sampled_values ==
                    [j \in 1..thickness |->
                        MapCoordinates(intensity_image,
                                       y_line + (offsets[j] * dx * CoordScale) \div norm,
                                       x_line + (offsets[j] * (-dy) * CoordScale) \div norm)]
            IN  Mean(sampled_values)]

\* a segment of integer length 0 reported as one sample
SampleStraightLine_one(intensity_image, point1, point2, thickness) ==
    LET length == SegmentLength(point1, point2)
    IN  IF length = 0 THEN <<0>>
        ELSE SampleSegment(intensity_image, point1, point2, thickness, length)

\* _sample_straight_line
SampleStraightLine(intensity_image, point1, point2, thickness) ==
    LET length == SegmentLength(point1, point2)
    IN  IF length = 0 THEN <<>>
        ELSE SampleSegment(intensity_image, point1, point2, thickness, length)

\* np.arange(n) without the cumulative start: positions restart at each join
Arange_reset(start, n) == [i \in 1..n |-> i - 1]

\* np.arange(n) + start
Arange(start, n) == [i \in 1..n |-> start + i - 1]

\* _sample_polyline: intensity and positions after the first n segments
RECURSIVE SamplePolyline(_, _, _, _)
SamplePolyline(intensity_image, line_points, thickness, n) ==
    IF n = 0 THEN [intensity |-> <<>>, positions |-> <<>>]
    ELSE LET before == SamplePolyline(intensity_image, line_points, thickness, n - 1)
             cumulative_length == Len(before.intensity)
             segment_intensity ==
                 SampleStraightLine(intensity_image, line_points[n], line_points[n + 1],
                                    thickness)
         IN  [intensity |-> before.intensity \o segment_intensity,
              positions |-> before.positions
                              \o Arange(cumulative_length, Len(segment_intensity))]

\* the window of the optional smoothing: min(smoothing, len), made odd
SmoothingWindow(smoothing, n) ==
    LET window_size == Min(smoothing, n)
    IN  IF window_size % 2 = 0 THEN window_size - 1 ELSE window_size

\* savgol_filter(intensity, 3, 2): the parabola through three samples
\* passes through each of them
SavgolFilter3(intensity) == intensity

\* the optional smoothing of extract_cross_section
Smooth(intensity, smoothing) ==
    IF smoothing # None /\ smoothing[1] > 0
         /\ SmoothingWindow(smoothing[1], Len(intensity)) >= 3
      THEN SavgolFilter3(intensity)
      ELSE intensity

\* the guard of extract_cross_section off by one
PathTooShort_one(line_points) == Len(line_points) < 1

\* extract_cross_section: raise ValueError if this holds
PathTooShort(line_points) == Len(line_points) < 2

Outcome(raised, positions, intensity) ==
    <<[raised |-> raised, positions |-> positions, intensity |-> intensity]>>

extract_cross_section ==
    /\ profile = None
    /\ LET image == sampling.image
           line_points == sampling.line_points
           thickness == sampling.thickness
           linear == IF sampling.channels = 3
                       THEN RgbToIntensity(BgrToLinearRgb(image))
                       ELSE IntensityImage(image)
       IN  IF PathTooShort(line_points)
             THEN profile' = Outcome(TRUE, None, None)
             ELSE IF Len(line_points) = 2
               THEN LET intensity == SampleStraightLine(linear, line_points[1],
                                                        line_points[2], thickness)
                    IN  profile' = Outcome(FALSE, Arange(0, Len(intensity)),
                                           Smooth(intensity, sampling.smoothing))
               ELSE LET poly == SamplePolyline(linear, line_points, thickness,
                                               Len(line_points) - 1)
                    IN  profile' = Outcome(FALSE, poly.positions,
                                           Smooth(poly.intensity, sampling.smoothing))
    /\ UNCHANGED sampling

\* image[:, :, c]
Channel(img, c) == [y \in 1..Height(img) |-> [x \in 1..Width(img) |-> img[y][x][c]]]

\* map_coordinates writes into an array of the input's dtype: the
\* interpolated value of a uint8 channel is rounded to a uint8
RoundToUint8(v) == Clamp((v + (CoordScale * CoordScale) \div 2) \div (CoordScale * CoordScale), 0, 255)

\* _extract_strip_straight
ExtractStripStraight(image, point1, point2, thickness) ==
    LET length == SegmentLength(point1, point2)
        dx   == point2[1] - point1[1]
        dy   == point2[2] - point1[2]
        norm == ISqrt((dx * dx + dy * dy) * CoordScale * CoordScale)
        offsets == Offsets(thickness)
    IN  IF length = 0 THEN <<(<<0, 0, 0>>)>>
        ELSE [i \in 1..length |->
                LET x_line == Linspace(point1[1] * CoordScale, point2[1] * CoordScale, length, i - 1)
                    y_line == Linspace(point1[2] * CoordScale, point2[2] * CoordScale, length, i - 1)
                IN  [c \in 1..3 |->
                        LET sampled ==
                                [j \in 1..thickness |->
                                    RoundToUint8(
                                        MapCoordinates(Channel(image, c),
                                            y_line + (offsets[j] * dx * CoordScale) \div norm,
                                            x_line + (offsets[j] * (-dy) * CoordScale) \div norm))]
                        IN  Sum(sampled) \div Len(sampled)]]

\* _extract_strip_polyline: the strips of the first n segments, side by side
RECURSIVE ExtractStripPolyline(_, _, _, _)
ExtractStripPolyline(image, line_points, thickness, n) ==
    IF n = 0 THEN <<>>
    ELSE ExtractStripPolyline(image, line_points, thickness, n - 1)
           \o ExtractStripStraight(image, line_points[n], line_points[n + 1], thickness)

\* the strip as an array of strip_height equal rows
StripOutcome(raised, height, columns) ==
    <<[raised |-> raised, height |-> height, columns |-> columns]>>

\* extract_color_strip; np.concatenate of an empty list raises ValueError
extract_color_strip ==
    /\ strip = None
    /\ sampling.channels = 3
    /\ LET image == sampling.image
           line_points == sampling.line_points
           thickness == sampling.thickness
       IN  IF Len(line_points) = 2
             THEN strip' = StripOutcome(FALSE, sampling.strip_height,
                               ExtractStripStraight(image, line_points[1], line_points[2],
                                                    thickness))
             ELSE IF Len(line_points) - 1 <= 0
               THEN strip' = StripOutcome(TRUE, None, None)
               ELSE strip' = StripOutcome(FALSE, sampling.strip_height,
                                 ExtractStripPolyline(image, line_points, thickness,
                                                      Len(line_points) - 1))
    /\ UNCHANGED <<sampling, profile>>

\* BGR pixels of the colour images
ColorPixels == {<<0, 0, 0>>, <<255, 128, 10>>}

\* colour images that are constant in y
ColorImages ==
    {[y \in 1..SampHeight |-> cols] : cols \in [1..SampWidth -> ColorPixels]}

StripHeights == {1, 2}

\* images that are constant in y: one value for each column
SampImages ==
    {[y \in 1..SampHeight |-> cols] : cols \in [1..SampWidth -> SampLevels]}

\* path points: three points of the top row and two points outside the image
PathPoints == {<<0, 0>>, <<1, 0>>, <<SampWidth - 1, 0>>, <<1, SampHeight>>, <<-1, 0>>}

Paths == {<<>>} \cup SeqsUpTo(PathPoints, MaxPath)

(***************************************************************************)
(* The numbers behind an order-1 fit.  np.polyfit(x, y, 1) returns the     *)
(* least-squares line of the data, unique when x takes two values or more: *)
(* slope and intercept are kept as exact quotients over one denominator.   *)
(***************************************************************************)
Dot(x, y) == Sum([i \in 1..Len(x) |-> x[i] * y[i]])

\* the line through the origin: polyfit without the constant column
LeastSquares_through_origin(x, y) ==
    [slope |-> Dot(x, y), intercept |-> 0, den |-> Dot(x, x)]

\* np.polyfit(x, y, 1): the solution of the normal equations
LeastSquares(x, y) ==
    LET n == Len(x)
    IN  [slope     |-> n * Dot(x, y) - Sum(x) * Sum(y),
         intercept |-> Sum(y) * Dot(x, x) - Sum(x) * Dot(x, y),
         den       |-> n * Dot(x, x) - Sum(x) * Sum(x)]

\* the value of np.polyval(coefficients, x) for the coefficients of an
\* order-1 fit
PolyvalNumber(term) ==
    LET line == LeastSquares(term.poly[1].x, term.poly[1].y)
    IN  Float(line.slope * term.at + line.intercept, line.den)

\* residuals = wavelengths - pred_wavelengths, one entry
ResidualNumber(residual) ==
    LET pred == PolyvalNumber(residual.pred)
    IN  Float(residual.y * pred.den - pred.num, pred.den)

\* r_squared = 1 - ss_res / (ss_tot + 1e-10); the 1e-10 decides the value
\* only when ss_tot is 0
RSquaredNumber(r_squared) ==
    LET residuals == r_squared.of
        n      == Len(residuals)
        y      == [i \in 1..n |-> residuals[i].y]
        den    == ResidualNumber(residuals[1]).den
        ss_res == Sum([i \in 1..n |-> ResidualNumber(residuals[i]).num
                                       * ResidualNumber(residuals[i]).num])
        ss_tot == n * Dot(y, y) - Sum(y) * Sum(y)
    IN  IF ss_res = 0 THEN Float(1, 1)
        ELSE IF ss_tot = 0 THEN Float(-1, 0)
        ELSE Float(den * den * ss_tot - n * ss_res, den * den * ss_tot)

\* calibration data for the order-1 fit: three pixels, three wavelengths
\* (in hundreds of pixels and of nanometres)
LinePixels      == {0, 1, 2}
LineWavelengths == {4, 5, 6}
\* wavelengths asked of the inverse mapping: one below the calibrated range
LineTargets     == {3, 5}

(***************************************************************************)
(* PeakDetector  src/calibration/peak_detector.py                          *)
(*                                                                         *)
(* An intensity profile is a sequence of integers; indices are those of    *)
(* the code (the first sample has index 0).  Positions, widths and         *)
(* confidences are exact quotients.                                        *)
(***************************************************************************)
MaxProfile  == 5      \* samples of a profile
MaxLevel    == 3      \* greatest sample value
MaxPeaksArg == 2      \* greatest max_peaks

PeakLevels   == 0..MaxLevel
Profiles     == UNION {[1..n -> PeakLevels] : n \in 0..MaxProfile}
Prominences  == {Float(1, 10), Float(1, 2)}
Widths       == {None, <<0, 2>>}
MaxPeaksArgs == {None} \cup {<<k>> : k \in 0..MaxPeaksArg}

SetMin(S) == CHOOSE m \in S : \A v \in S : m <= v
SetMax(S) == CHOOSE m \in S : \A v \in S : m >= v

\* x[i] for the code's index i
At(x, i) == x[i + 1]

\* np.ptp(intensity)
Ptp(x) == SetMax({x[i] : i \in 1..Len(x)}) - SetMin({x[i] : i \in 1..Len(x)})

\* _local_maxima_1d: a plateau that starts at i is a peak when the first
\* sample that differs from it, if there is one, is lower
PlateauEnd(x, i) ==
    LET differ == {k \in (i + 1)..(Len(x) - 1) : At(x, k) # At(x, i)}
    IN  IF differ = {} THEN Len(x) ELSE SetMin(differ)

IsPlateauPeak(x, i) ==
    /\ i >= 1
    /\ At(x, i - 1) < At(x, i)
    /\ PlateauEnd(x, i) <= Len(x) - 1
    /\ At(x, PlateauEnd(x, i)) < At(x, i)

\* the midpoints of the peak plateaus
LocalMaxima(x) ==
    {(i + PlateauEnd(x, i) - 1) \div 2 : i \in {j \in 1..(Len(x) - 2) : IsPlateauPeak(x, j)}}

\* _peak_prominences (wlen = None): the lowest sample between the peak and
\* the nearest higher sample on each side, and the nearest place it is taken
LeftReach(x, peak) ==
    LET higher == {j \in 0..(peak - 1) : At(x, j) > At(x, peak)}
    IN  IF higher = {} THEN 0 ELSE SetMax(higher) + 1

RightReach(x, peak) ==
    LET higher == {j \in (peak + 1)..(Len(x) - 1) : At(x, j) > At(x, peak)}
    IN  IF higher = {} THEN Len(x) - 1 ELSE SetMin(higher) - 1

LeftMin(x, peak)  == SetMin({At(x, j) : j \in LeftReach(x, peak)..peak})
RightMin(x, peak) == SetMin({At(x, j) : j \in peak..RightReach(x, peak)})

LeftBase(x, peak) ==
    SetMax({j \in LeftReach(x, peak)..peak : At(x, j) = LeftMin(x, peak)})

RightBase(x, peak) ==
    SetMin({j \in peak..RightReach(x, peak) : At(x, j) = RightMin(x, peak)})

PeakProminence(x, peak) ==
    At(x, peak) - Max(LeftMin(x, peak), RightMin(x, peak))

\* _peak_widths at rel_height = 0.5: the distance between the two crossings
\* of the height x[peak] - prominence / 2, interpolated between samples.
\* height2 is twice that height.
LeftCrossing(x, height2, il) ==
    IF 2 * At(x, il) < height2
      THEN Float(2 * il * (At(x, il + 1) - At(x, il)) + (height2 - 2 * At(x, il)),
                 2 * (At(x, il + 1) - At(x, il)))
      ELSE Float(il, 1)

RightCrossing(x, height2, ir) ==
    IF 2 * At(x, ir) < height2
      THEN Float(2 * ir * (At(x, ir - 1) - At(x, ir)) - (height2 - 2 * At(x, ir)),
                 2 * (At(x, ir - 1) - At(x, ir)))
      ELSE Float(ir, 1)

\* right_ips - left_ips
Distance(left_ip, right_ip) ==
    Float(right_ip.num * left_ip.den - left_ip.num * right_ip.den,
          right_ip.den * left_ip.den)

\* the walk from the peak towards each base, to the first sample that is not
\* above the height
WidthAt(x, peak, height2, left_base, right_base) ==
    Distance(LeftCrossing(x, height2,
                 SetMax({j \in left_base..peak :
                            j = left_base \/ ~(height2 < 2 * At(x, j))})),
             RightCrossing(x, height2,
                 SetMin({j \in peak..right_base :
                            j = right_base \/ ~(height2 < 2 * At(x, j))})))

PeakWidth(x, peak) ==
    WidthAt(x, peak, 2 * At(x, peak) - PeakProminence(x, peak),
            LeftBase(x, peak), RightBase(x, peak))

\* the elements of a set of integers in increasing order
RECURSIVE Ascending(_)
Ascending(S) ==
    IF S = {} THEN <<>> ELSE <<SetMin(S)>> \o Ascending(S \ {SetMin(S)})

\* the width condition (min, max) of find_peaks
WidthWithin(w, width) ==
    /\ width[1] * w.den <= w.num
    /\ w.num <= width[2] * w.den

\* the local maxima that meet the prominence and the width conditions
SelectPeaks(x, prominence, width) ==
    {p \in LocalMaxima(x) :
        /\ prominence.num * Ptp(x) <= PeakProminence(x, p) * prominence.den
        /\ width # None => WidthWithin(PeakWidth(x, p), width)}

\* the properties find_peaks returns with the peak indices
PeakProperties(x, width, peak_indices) ==
    [i \in 1..Len(peak_indices) |->
        [index      |-> peak_indices[i],
         prominence |-> PeakProminence(x, peak_indices[i]),
         width      |-> IF width = None THEN None
                        ELSE <<PeakWidth(x, peak_indices[i])>>]]

\* find_peaks(intensity, prominence=prominence_abs, width=width): the peak
\* indices in increasing order with their properties; 'widths' is among the
\* properties only when a width condition is given
FindPeaks(x, prominence, width) ==
    PeakProperties(x, width, Ascending(SelectPeaks(x, prominence, width)))

\* the vertex on the wrong side of the index: idx - offset
Vertex_mirrored(idx, difference, denom) ==
    IF denom > 0 THEN Float(idx * denom - difference, denom)
    ELSE Float(idx * (-denom) + difference, -denom)

\* refined = idx + offset, offset = (y1 - y3) / denom, as a quotient with a
\* positive denominator; difference is y1 - y3
Vertex(idx, difference, denom) ==
    IF denom > 0 THEN Float(idx * denom + difference, denom)
    ELSE Float(idx * (-denom) - difference, -denom)

\* the refinement without its sanity check
RefinePeakPosition_unchecked(x, idx) ==
    IF idx <= 0 \/ idx >= Len(x) - 1 THEN Float(idx, 1)
    ELSE LET y1 == At(x, idx - 1)
             y2 == At(x, idx)
             y3 == At(x, idx + 1)
             denom == 2 * (y1 - 2 * y2 + y3)
         IN  IF denom = 0 THEN Float(idx, 1)
             ELSE Vertex(idx, y1 - y3, denom)

\* _refine_peak_position: the vertex of the parabola through the peak and
\* its two neighbours, or the index itself
RefinePeakPosition(x, idx) ==
    IF idx <= 0 \/ idx >= Len(x) - 1 THEN Float(idx, 1)
    ELSE LET y1 == At(x, idx - 1)
             y2 == At(x, idx)
             y3 == At(x, idx + 1)
             denom == 2 * (y1 - 2 * y2 + y3)
         IN  IF denom = 0 THEN Float(idx, 1)
             ELSE IF Abs(y1 - y3) > Abs(denom) THEN Float(idx, 1)
             ELSE Vertex(idx, y1 - y3, denom)

\* one call of _refine_peak_position(intensity, idx)
refine_peak_position ==
    /\ refined.position = None
    /\ refined' = [refined EXCEPT
                      !.position = <<RefinePeakPosition(refined.intensity, refined.idx)>>]
    /\ UNCHANGED <<detection, peaks>>

\* confidence = min(1.0, prominence / (ptp * 0.5)), times 1.2 (capped at 1)
\* for a peak narrower than 10
PeakConfidence(prominence, ptp, width) ==
    LET confidence == PyMin(Float(1, 1), Float(2 * prominence, ptp))
    IN  IF Less(width, Float(10, 1))
          THEN PyMin(Float(1, 1), Float(12 * confidence.num, 10 * confidence.den))
          ELSE confidence

\* Peak (dataclass)
Peak(position, amplitude, prominence, width, confidence) ==
    [position |-> position, amplitude |-> amplitude, prominence |-> prominence,
     width |-> width, confidence |-> confidence]

\* the Peak objects in the order of find_peaks
MakePeaks(x, found) ==
    [i \in 1..Len(found) |->
        Peak(RefinePeakPosition(x, found[i].index), At(x, found[i].index),
             found[i].prominence, found[i].width[1],
             PeakConfidence(found[i].prominence, Ptp(x), found[i].width[1]))]

\* the place of one more peak in a list sorted by descending prominence:
\* behind every peak that is at least as prominent (the sort is stable)
RECURSIVE InsertByProminence(_, _)
InsertByProminence(sorted, peak) ==
    IF Len(sorted) = 0 THEN <<peak>>
    ELSE IF Head(sorted).prominence >= peak.prominence
      THEN <<Head(sorted)>> \o InsertByProminence(Tail(sorted), peak)
      ELSE <<peak>> \o sorted

\* the list left in the order of find_peaks
SortByProminence_unsorted(list) == list

\* peaks.sort(key=lambda p: p.prominence, reverse=True)
RECURSIVE SortByProminence(_)
SortByProminence(list) ==
    IF Len(list) = 0 THEN <<>>
    ELSE InsertByProminence(SortByProminence(SubSeq(list, 1, Len(list) - 1)),
                            list[Len(list)])

\* peaks[:max_peaks] for max_peaks >= 0
Truncate(list, max_peaks) ==
    IF max_peaks = None THEN list
    ELSE SubSeq(list, 1, Min(max_peaks[1], Len(list)))

\* what detect_peaks did: whether it raised, what find_peaks returned, and
\* the list returned
PeakOutcome(raised, found, list) ==
    <<[raised |-> raised, found |-> found, list |-> list]>>

\* the list detect_peaks builds from what find_peaks returned;
\* properties['widths'] raises KeyError when the detector has no width
\* condition
PeaksFrom(intensity, found, width, max_peaks) ==
    IF Len(found) = 0 THEN PeakOutcome(FALSE, <<>>, <<>>)
    ELSE IF width = None THEN PeakOutcome(TRUE, found, None)
    ELSE PeakOutcome(FALSE, found,
                     Truncate(SortByProminence(MakePeaks(intensity, found)), max_peaks))

\* detect_peaks
detect_peaks ==
    /\ peaks = None
    /\ IF Len(detection.intensity) < 3
         THEN peaks' = PeakOutcome(FALSE, <<>>, <<>>)
         ELSE peaks' = PeaksFrom(detection.intensity,
                                 FindPeaks(detection.intensity, detection.prominence,
                                           detection.width),
                                 detection.width, detection.max_peaks)
    /\ UNCHANGED <<detection, refined>>

(***************************************************************************)
(* Persistence: CalibrationModel.to_dict / from_dict and ProfileManager    *)
(* src/calibration/profile_manager.py                                      *)
(*                                                                         *)
(* A dict is a record.  A JSON text is the tree of its values, each tagged *)
(* with its JSON type; json.load rebuilds Python values from the tags.     *)
(***************************************************************************)
\* the fields of the CalibrationModel object
ModelState ==
    [polynomial_order |-> polynomial_order, points |-> points,
     coefficients |-> coefficients, fit_quality |-> fit_quality]

\* dataclasses.asdict(p)
AsDict(p) == [pixel |-> p.pixel, wavelength |-> p.wavelength, label |-> p.label]

\* self.coefficients.tolist()
ToList(array) == [i \in 1..Len(array) |-> array[i]]

\* CalibrationModel.to_dict
ToDict ==
    [polynomial_order |-> polynomial_order,
     points           |-> [i \in 1..Len(points) |-> AsDict(points[i])],
     coefficients     |-> IF coefficients # None THEN ToList(coefficients) ELSE None,
     fit_quality      |-> fit_quality]

\* CalibrationModel.from_dict: the fields of the model it builds
FromDict(data) ==
    [polynomial_order |-> data.polynomial_order,
     points           |-> [i \in 1..Len(data.points) |->
                              CalibrationPoint(data.points[i].pixel,
                                               data.points[i].wavelength,
                                               data.points[i].label)],
     coefficients     |-> IF data.coefficients # None THEN ToList(data.coefficients)
                          ELSE None,
     fit_quality      |-> data.fit_quality]

JNull         == [json |-> "null"]
JNumber(v)    == [json |-> "number", v |-> v]
JString(v)    == [json |-> "string", v |-> v]
JArray(items) == [json |-> "array", items |-> items]
JObject(members) == [json |-> "object", members |-> members]

\* json.dump of the dict of to_dict
DumpQuality(quality) ==
    IF quality = None THEN JNull
    ELSE JObject([r_squared |-> JNumber(quality.r_squared),
                  rmse      |-> JNumber(quality.rmse),
                  max_error |-> JNumber(quality.max_error),
                  residuals |-> JArray([i \in 1..Len(quality.residuals) |->
                                           JNumber(quality.residuals[i])])])

DumpPoint(p) ==
    JObject([pixel      |-> JNumber(p.pixel),
             wavelength |-> JNumber(p.wavelength),
             label      |-> IF p.label = None THEN JNull ELSE JString(p.label)])

DumpModel(data) ==
    JObject([polynomial_order |-> JNumber(data.polynomial_order),
             points           |-> JArray([i \in 1..Len(data.points) |->
                                             DumpPoint(data.points[i])]),
             coefficients     |-> IF data.coefficients = None THEN JNull
                                  ELSE JArray([i \in 1..Len(data.coefficients) |->
                                                  JNumber(data.coefficients[i])]),
             fit_quality      |-> DumpQuality(data.fit_quality)])

\* json.dump(profile_data, f)
DumpProfile(name, data) ==
    JObject([name        |-> JString(name),
             description |-> JString(""),
             created     |-> JString("datetime.now().isoformat()"),
             metadata    |-> JObject(<<>>),
             model       |-> DumpModel(data)])

\* json.load
RECURSIVE JsonLoad(_)
JsonLoad(j) ==
    CASE j.json = "null"   -> None
      [] j.json = "number" -> j.v
      [] j.json = "string" -> j.v
      [] j.json = "array"  -> [i \in 1..Len(j.items) |-> JsonLoad(j.items[i])]
      [] j.json = "object" -> [k \in DOMAIN j.members |-> JsonLoad(j.members[k])]

\* the names given to profiles
ProfileNames == {"Hg/Ar lamp", "config"}

\* _sanitize_filename, for the names above: '/' and '\' become '_', what is
\* neither alphanumeric nor one of "._- " is dropped
SanitizeFilename(name) ==
    CASE name = "Hg/Ar lamp" -> "Hg_Ar lamp"
      [] name = "config"     -> "config"

\* ProfileManager.__init__: the profile directory is created, and with it
\* its parents; the default directory is config/calibration_profiles under
\* the working directory
ProfileDirs == {"config/calibration_profiles", "/data/profiles"}

StoreInit(profiles_dir) ==
    [profiles_dir |-> profiles_dir,
     cwd   |-> IF profiles_dir = "config/calibration_profiles" THEN {"config"} ELSE {},
     files |-> <<>>,
     data  |-> None]

\* Path(name_or_path).exists(), the path taken from the working directory
PathExists(name_or_path) == name_or_path \in store.cwd

\* the most recent persistence call and its outcome
Loaded(op, name, raised, model) ==
    <<[op |-> op, name |-> name, raised |-> raised, model |-> model]>>

\* data = model.to_dict()
to_dict ==
    /\ store' = [store EXCEPT !.data = <<ToDict>>]
    /\ loaded' = Loaded("to_dict", "", FALSE, None)

\* CalibrationModel.from_dict(data)
from_dict ==
    /\ store.data # None
    /\ loaded' = Loaded("from_dict", "", FALSE, <<FromDict(store.data[1])>>)
    /\ UNCHANGED store

\* ProfileManager.save_profile(model, name)
save_profile(name) ==
    LET filename == SanitizeFilename(name)
    IN  /\ store' = [store EXCEPT !.files =
                        [f \in DOMAIN store.files \cup {filename} |->
                            IF f = filename THEN DumpProfile(name, ToDict)
                            ELSE store.files[f]]]
        /\ loaded' = Loaded("save_profile", name, FALSE, None)

\* ProfileManager.load_profile(name_or_path): the name is tried as a path
\* first; open() of a directory raises IsADirectoryError
load_profile(name_or_path) ==
    /\ IF PathExists(name_or_path)
         THEN loaded' = Loaded("load_profile", name_or_path, TRUE, None)
         ELSE LET filename == SanitizeFilename(name_or_path)
              IN  IF filename \notin DOMAIN store.files
                    THEN loaded' = Loaded("load_profile", name_or_path, TRUE, None)
                    ELSE loaded' = Loaded("load_profile", name_or_path, FALSE,
                                          <<FromDict(JsonLoad(store.files[filename]).model)>>)
    /\ UNCHANGED store

\* nothing has been serialised yet
Pristine == store.data = None /\ DOMAIN store.files = {}

(***************************************************************************)
(* VideoManager  src/video/video_manager.py                                *)
(*                                                                         *)
(* A connected manager: the capture thread runs _capture_loop while        *)
(* another thread calls read_frame.  Each call on the queue is one step    *)
(* (queue.Queue takes its mutex); the threads interleave between calls.    *)
(* Frames are numbered in capture order.                                   *)
(***************************************************************************)
MaxFrames == 4      \* frames the source delivers

\* Queue(maxsize=2)
QueueMaxSize == 2

\* the test that is always false: nothing is ever evicted
Full_never(q) == FALSE

\* self._frame_queue.full()
Full(q) == Len(q) >= QueueMaxSize

\* self._frame_queue.empty()
Empty(q) == Len(q) = 0

Capture(pc, frame) == [pc |-> pc, frame |-> frame]
\* queued: the queue as read_frame found it when it was called; latest: the
\* last frame a read_frame call returned
Reader(pc, frame, returned, taken, queued, latest) ==
    [pc |-> pc, frame |-> frame, returned |-> returned, taken |-> taken,
     queued |-> queued, latest |-> latest]

Session(pc, op) == [pc |-> pc, op |-> op]

\* is_connected()
is_connected == cap # None /\ is_running

(***************************************************************************)
(* _capture_loop, statement by statement, run by a thread that is at t     *)
(* before the step and at u after it                                       *)
(***************************************************************************)
\* while self.is_running: the thread ends when it finds the flag down;
\* self.cap.read() on self.cap = None raises AttributeError, which the
\* handler of the loop logs before it sleeps
WhileRunning(t, u) ==
    /\ t.pc = "loop"
    /\ u = Capture(IF ~is_running THEN "done"
                   ELSE IF cap = None THEN "sleep" ELSE "read", None)
    /\ UNCHANGED <<frame_queue, frame_count, drop_count>>

\* ret, frame = self.cap.read(): the next frame, or no frame
CapRead(t, u) ==
    /\ t.pc = "read"
    /\ \/ /\ frame_count < MaxFrames
          /\ u = Capture("count", <<frame_count + 1>>)
       \/ u = Capture("sleep", None)
    /\ UNCHANGED <<frame_queue, frame_count, drop_count>>

\* if not ret: time.sleep(0.1); continue
Sleep(t, u) ==
    /\ t.pc = "sleep"
    /\ u = Capture("loop", None)
    /\ UNCHANGED <<frame_queue, frame_count, drop_count>>

\* self.frame_count += 1
CountFrame(t, u) ==
    /\ t.pc = "count"
    /\ frame_count' = frame_count + 1
    /\ u = Capture("full", t.frame)
    /\ UNCHANGED <<frame_queue, drop_count>>

\* if self._frame_queue.full():
TestFull(t, u) ==
    /\ t.pc = "full"
    /\ u = Capture(IF Full(frame_queue) THEN "evict" ELSE "put", t.frame)
    /\ UNCHANGED <<frame_queue, frame_count, drop_count>>

\* self._frame_queue.get_nowait(); self.drop_count += 1, or Empty is
\* raised and passed over
Evict(t, u) ==
    /\ t.pc = "evict"
    /\ IF Empty(frame_queue)
         THEN UNCHANGED <<frame_queue, drop_count>>
         ELSE /\ frame_queue' = Tail(frame_queue)
              /\ drop_count' = drop_count + 1
    /\ u = Capture("put", t.frame)
    /\ UNCHANGED frame_count

\* self._frame_queue.put(frame): waits while the queue is full
Put(t, u) ==
    /\ t.pc = "put"
    /\ Len(frame_queue) < QueueMaxSize
    /\ frame_queue' = Append(frame_queue, t.frame[1])
    /\ u = Capture("loop", None)
    /\ UNCHANGED <<frame_count, drop_count>>

\* the steps of the thread that self._capture_thread names
capture_loop ==
    /\ capture # None
    /\ WhileRunning(capture, capture')
    /\ UNCHANGED <<reader, is_running, cap, session, stale>>

capture_read ==
    /\ capture # None
    /\ CapRead(capture, capture')
    /\ UNCHANGED <<reader, is_running, cap, session, stale>>

capture_sleep ==
    /\ capture # None
    /\ Sleep(capture, capture')
    /\ UNCHANGED <<reader, is_running, cap, session, stale>>

capture_count ==
    /\ capture # None
    /\ CountFrame(capture, capture')
    /\ UNCHANGED <<reader, is_running, cap, session, stale>>

capture_full ==
    /\ capture # None
    /\ TestFull(capture, capture')
    /\ UNCHANGED <<reader, is_running, cap, session, stale>>

capture_evict ==
    /\ capture # None
    /\ Evict(capture, capture')
    /\ UNCHANGED <<reader, is_running, cap, session, stale>>

capture_put ==
    /\ capture # None
    /\ Put(capture, capture')
    /\ UNCHANGED <<reader, is_running, cap, session, stale>>

\* the steps of a thread that disconnect gave up waiting for
stale_step ==
    /\ stale # None
    /\ \/ WhileRunning(stale, stale')
       \/ CapRead(stale, stale')
       \/ Sleep(stale, stale')
       \/ CountFrame(stale, stale')
       \/ TestFull(stale, stale')
       \/ Evict(stale, stale')
       \/ Put(stale, stale')
    /\ UNCHANGED <<capture, reader, is_running, cap, session>>

\* read_frame(): None at once unless is_connected(); frame = None
read_frame_call ==
    /\ reader.pc = "idle"
    /\ IF is_connected
         THEN reader' = Reader("empty", None, reader.returned, reader.taken,
                                frame_queue, reader.latest)
         ELSE reader' = Reader("idle", None, <<None>>, reader.taken,
                                frame_queue, reader.latest)
    /\ UNCHANGED <<frame_queue, frame_count, drop_count, capture,
                   is_running, cap, session, stale>>

\* while not self._frame_queue.empty():
read_frame_empty ==
    /\ reader.pc = "empty"
    /\ reader' = Reader(IF Empty(frame_queue) THEN "return" ELSE "get",
                        reader.frame, reader.returned, reader.taken,
                        reader.queued, reader.latest)
    /\ UNCHANGED <<frame_queue, frame_count, drop_count, capture,
                   is_running, cap, session, stale>>

\* frame = self._frame_queue.get_nowait(), or Empty is raised and ends the loop
read_frame_get ==
    /\ reader.pc = "get"
    /\ IF Empty(frame_queue)
         THEN /\ reader' = Reader("return", reader.frame, reader.returned, reader.taken,
                                  reader.queued, reader.latest)
              /\ UNCHANGED frame_queue
         ELSE /\ reader' = Reader("empty", <<Head(frame_queue)>>, reader.returned,
                                  reader.taken + 1, reader.queued, reader.latest)
              /\ frame_queue' = Tail(frame_queue)
    /\ UNCHANGED <<frame_count, drop_count, capture, is_running, cap, session, stale>>

\* return frame
read_frame_return ==
    /\ reader.pc = "return"
    /\ reader' = Reader("idle", None, <<reader.frame>>, reader.taken, reader.queued,
                        IF reader.frame = None THEN reader.latest ELSE reader.frame)
    /\ UNCHANGED <<frame_queue, frame_count, drop_count, capture,
                   is_running, cap, session, stale>>

(***************************************************************************)
(* connect and disconnect, called by one thread                            *)
(***************************************************************************)
\* connect(source): if self.is_connected(): self.disconnect()
connect_call ==
    /\ session.pc = "idle"
    /\ session' = Session(IF is_connected THEN "stop" ELSE "open", "connect")
    /\ UNCHANGED <<frame_queue, frame_count, drop_count, capture, reader,
                   is_running, cap, stale>>

\* self.cap = cv2.VideoCapture(source); VideoConnectionError is raised
\* unless it is opened
connect_open ==
    /\ session.pc = "open"
    /\ \E opened \in BOOLEAN :
          /\ cap' = <<opened>>
          /\ session' = Session(IF opened THEN "start" ELSE "idle", "connect")
    /\ UNCHANGED <<frame_queue, frame_count, drop_count, capture, reader,
                   is_running, stale>>

\* self.is_running = True; the capture thread is created and started
connect_start ==
    /\ session.pc = "start"
    /\ is_running' = TRUE
    /\ capture' = Capture("loop", None)
    /\ session' = Session("idle", "connect")
    /\ UNCHANGED <<frame_queue, frame_count, drop_count, reader, cap, stale>>

\* disconnect()
disconnect_call ==
    /\ session.pc = "idle"
    /\ session' = Session("stop", "disconnect")
    /\ UNCHANGED <<frame_queue, frame_count, drop_count, capture, reader,
                   is_running, cap, stale>>

\* self.is_running = False
disconnect_stop ==
    /\ session.pc = "stop"
    /\ is_running' = FALSE
    /\ session' = Session(IF capture # None THEN "join" ELSE "release", session.op)
    /\ UNCHANGED <<frame_queue, frame_count, drop_count, capture, reader, cap, stale>>

\* self._capture_thread.join(timeout=2.0) returns with the thread alive: the
\* thread has been in cap.read() for the two seconds
JoinTimesOut(thread) == thread.pc = "read"

\* self._capture_thread.join(timeout=2.0); self._capture_thread = None
disconnect_join ==
    /\ session.pc = "join"
    /\ \/ /\ capture.pc = "done"
          /\ UNCHANGED stale
       \/ /\ JoinTimesOut(capture)
          /\ IF stale = None THEN TRUE ELSE stale.pc = "done"
          /\ stale' = capture
    /\ capture' = None
    /\ session' = Session("release", session.op)
    /\ UNCHANGED <<frame_queue, frame_count, drop_count, reader, is_running, cap>>

\* self.cap.release(); self.cap = None
disconnect_release ==
    /\ session.pc = "release"
    /\ cap' = None
    /\ session' = Session("clear", session.op)
    /\ UNCHANGED <<frame_queue, frame_count, drop_count, capture, reader,
                   is_running, stale>>

\* the queue is emptied; self.frame_count = 0; self.drop_count = 0;
\* disconnect returns, to its caller or into connect
disconnect_clear ==
    /\ session.pc = "clear"
    /\ frame_queue' = <<>>
    /\ frame_count' = 0
    /\ drop_count' = 0
    /\ session' = Session(IF session.op = "connect" THEN "open" ELSE "idle", session.op)
    /\ UNCHANGED <<capture, reader, is_running, cap, stale>>

UiIdle == widget = None /\ window = None

(***************************************************************************)
(* CalibrationWidget and MainWindow.  CalibrationModel objects are told    *)
(* apart by a number; the fields of the object the widget names are the    *)
(* variables of the model, and the fields of an object the widget has      *)
(* replaced stay as they were when it was replaced.                        *)
(***************************************************************************)
MaxModels == 2      \* CalibrationModel objects the widget comes to name
MaxRows   == 2      \* rows of the widget's table of points

\* the values of self.pixel_spin and self.wavelength_spin
SpinPixels      == {100, 300}
SpinWavelengths == {405}

\* self.order_spin.setRange(1, 3)
OrderSpin == 1..3

Widget(model) == [model |-> model]

\* calibration_model: None or the object the window names; held: the fields
\* of that object once the widget has replaced it; wavelengths: None or the
\* object and the coefficients the last analysis applied
Window(calibration_model, held, current_pixel_positions, wavelengths) ==
    [calibration_model |-> calibration_model, held |-> held,
     current_pixel_positions |-> current_pixel_positions,
     wavelengths |-> wavelengths]

\* self.calibration_model.coefficients
WindowCoefficients ==
    IF window.held # None THEN window.held[1].coefficients ELSE coefficients

\* _on_analyze_static, lines 361-364: the mapping applied to pixel_pos
Wavelengths_of(calibration_model, coeffs) ==
    IF calibration_model # None /\ coeffs # None
      THEN <<[model |-> calibration_model[1], coefficients |-> coeffs]>>
      ELSE None

\* MainWindow._on_calibration_updated(model): the window after the signal
CalibrationUpdated(model, coeffs) ==
    Window(<<model>>, None, window.current_pixel_positions,
           IF window.current_pixel_positions
             THEN Wavelengths_of(<<model>>, coeffs)
             ELSE window.wavelengths)

\* the window once the widget names another object and has not emitted it
Replaced ==
    IF window.calibration_model = <<widget.model>>
      THEN [window EXCEPT !.held = <<ModelState>>]
      ELSE window

\* MainWindow._on_analyze_static, the image and the line being such that the
\* profile is extracted
on_analyze_static ==
    /\ window' = [window EXCEPT
                     !.current_pixel_positions = TRUE,
                     !.wavelengths = Wavelengths_of(window.calibration_model,
                                                    WindowCoefficients)]
    /\ UNCHANGED <<widget, calVars, storeVars>>

\* CalibrationWidget._on_add_point
on_add_point(pixel, wavelength) ==
    /\ Len(points) < MaxRows
    /\ add_point(pixel, wavelength, None)
    /\ UNCHANGED <<widget, window, storeVars>>

\* CalibrationWidget._delete_point(index), index a row of the table
delete_point(index) ==
    /\ index < Len(points)
    /\ remove_point(index)
    /\ UNCHANGED <<widget, window, storeVars>>

\* CalibrationWidget._on_clear_points
on_clear_points ==
    /\ clear_points
    /\ UNCHANGED <<widget, window, storeVars>>

\* CalibrationWidget._on_fit: calibration_updated is emitted when fit
\* returns True
on_fit(order) ==
    /\ fit(<<order>>)
    /\ IF last'.ok
         THEN window' = CalibrationUpdated(widget.model, coefficients')
         ELSE UNCHANGED window
    /\ UNCHANGED <<widget, storeVars>>

\* CalibrationWidget._on_save_profile
on_save_profile(name) ==
    /\ save_profile(name)
    /\ UNCHANGED <<widget, window, calVars>>

\* the names typed into the dialog of _on_save_profile
DialogNames == {"Hg/Ar lamp"}

\* the names in self.profile_combo
ProfileCombo == {name \in DialogNames : SanitizeFilename(name) \in DOMAIN store.files}

\* CalibrationWidget._on_load_profile: self.model names the object that
\* load_profile returns, and calibration_updated is emitted when that
\* object is fitted; an exception of load_profile is shown and nothing else
\* happens
on_load_profile(name) ==
    /\ name \in ProfileCombo
    /\ widget.model < MaxModels
    /\ load_profile(name)
    /\ IF loaded'[1].raised
         THEN UNCHANGED <<widget, window, calVars>>
         ELSE LET model == loaded'[1].model[1]
              IN  /\ polynomial_order' = model.polynomial_order
                  /\ points' = model.points
                  /\ coefficients' = model.coefficients
                  /\ fit_quality' = model.fit_quality
                  /\ last' = Call("from_dict", 0, None, None, FALSE, TRUE, None)
                  /\ since' = Mutation("from_dict", 0, Len(model.points),
                                       model.coefficients # None)
                  /\ widget' = Widget(widget.model + 1)
                  /\ window' = IF model.coefficients # None
                                 THEN CalibrationUpdated(widget.model + 1,
                                                         model.coefficients)
                                 ELSE Replaced

CalIdle ==
    /\ polynomial_order = 0
    /\ points = <<>>
    /\ coefficients = None
    /\ fit_quality = None
    /\ last = None
    /\ since = None

DetIdle  == detector = None /\ gray = None /\ detected = None
SampIdle == sampling = None /\ profile = None /\ strip = None
PeakIdle == detection = None /\ peaks = None /\ refined = None
StoreIdle == store = None /\ loaded = None
VideoIdle ==
    /\ frame_queue = <<>>
    /\ frame_count = 0
    /\ drop_count = 0
    /\ capture = None
    /\ reader = None
    /\ is_running = FALSE
    /\ cap = None
    /\ session = None
    /\ stale = None

InitDet ==
    /\ \E min_line_length \in MinLineLengths :
          detector = [min_line_length |-> min_line_length]
    /\ gray \in DetImages
    /\ GaussianRadius(Height(gray)) = 0
    /\ detected = None
    /\ CalIdle
    /\ SampIdle
    /\ PeakIdle
    /\ StoreIdle
    /\ VideoIdle
    /\ UiIdle

NextDet ==
    \E lines \in HoughLinesP(gray, detector.min_line_length) :
        detect(lines) /\ UNCHANGED besidesDet

SpecDet == InitDet /\ [][NextDet]_vars

InitSamp ==
    /\ sampling \in [image : SampImages, channels : {1}, line_points : Paths,
                     thickness : 1..MaxThickness, smoothing : Smoothings]
    /\ profile = None
    /\ strip = None
    /\ CalIdle
    /\ DetIdle
    /\ PeakIdle
    /\ StoreIdle
    /\ VideoIdle
    /\ UiIdle

NextSamp == extract_cross_section /\ UNCHANGED <<besidesSamp, strip>>

SpecSamp == InitSamp /\ [][NextSamp]_vars

(***************************************************************************)
(* SpecCal: every sequence of calls on one CalibrationModel                *)
(***************************************************************************)
InitStrip ==
    /\ sampling \in [image : ColorImages, channels : {3}, line_points : Paths,
                     thickness : 1..MaxThickness, smoothing : {None},
                     strip_height : StripHeights]
    /\ profile = None
    /\ strip = None
    /\ CalIdle
    /\ DetIdle
    /\ PeakIdle
    /\ StoreIdle
    /\ VideoIdle
    /\ UiIdle

NextStrip ==
    \/ extract_cross_section /\ UNCHANGED <<besidesSamp, strip>>
    \/ extract_color_strip /\ UNCHANGED besidesSamp

SpecStrip == InitStrip /\ [][NextStrip]_vars

NextLine ==
    \/ \E pixel \in LinePixels, wavelength \in LineWavelengths :
          add_point(pixel, wavelength, None) /\ UNCHANGED besidesCal
    \/ \E order \in {None} \cup {<<k>> : k \in Orders} :
          fit(order) /\ UNCHANGED besidesCal
    \/ \E pixel \in LinePixels :
          pixel_to_wavelength(pixel) /\ UNCHANGED besidesCal
    \/ \E wavelength \in LineTargets, converged \in BOOLEAN :
          wavelength_to_pixel(wavelength, converged) /\ UNCHANGED besidesCal

InitPeak ==
    /\ detection \in [intensity : Profiles, prominence : Prominences, width : Widths,
                      max_peaks : MaxPeaksArgs]
    /\ peaks = None
    /\ refined = None
    /\ CalIdle
    /\ DetIdle
    /\ SampIdle
    /\ StoreIdle
    /\ VideoIdle
    /\ UiIdle

NextPeak == detect_peaks /\ UNCHANGED besidesPeak

SpecPeak == InitPeak /\ [][NextPeak]_vars

InitProfile ==
    /\ \E order \in Orders : CalInit(order)
    /\ \E profiles_dir \in ProfileDirs : store = StoreInit(profiles_dir)
    /\ loaded = None
    /\ DetIdle
    /\ SampIdle
    /\ PeakIdle
    /\ VideoIdle
    /\ UiIdle

\* the model is built, then serialised and read back
NextProfile ==
    \/ /\ Pristine
       /\ \E pixel \in Pixels, wavelength \in Wavelengths, label \in Labels :
             add_point(pixel, wavelength, label)
       /\ UNCHANGED besidesCal
    \/ /\ Pristine
       /\ \E index \in Indices : remove_point(index)
       /\ UNCHANGED besidesCal
    \/ Pristine /\ clear_points /\ UNCHANGED besidesCal
    \/ /\ Pristine
       /\ \E order \in {None} \cup {<<k>> : k \in Orders} : fit(order)
       /\ UNCHANGED besidesCal
    \/ to_dict /\ UNCHANGED <<calVars, besidesStore>>
    \/ from_dict /\ UNCHANGED <<calVars, besidesStore>>
    \/ \E name \in ProfileNames : save_profile(name) /\ UNCHANGED <<calVars, besidesStore>>
    \/ \E name \in ProfileNames : load_profile(name) /\ UNCHANGED <<calVars, besidesStore>>

SpecProfile == InitProfile /\ [][NextProfile]_vars

\* after connect(): the capture thread is started, nothing is queued
InitVideo ==
    /\ frame_queue = <<>>
    /\ frame_count = 0
    /\ drop_count = 0
    /\ capture = Capture("loop", None)
    /\ reader = Reader("idle", None, None, 0, <<>>, None)
    /\ is_running = TRUE
    /\ cap = <<TRUE>>
    /\ session = Session("idle", "connect")
    /\ stale = None
    /\ CalIdle
    /\ DetIdle
    /\ SampIdle
    /\ PeakIdle
    /\ StoreIdle
    /\ UiIdle

NextVideo ==
    \/ capture_loop /\ UNCHANGED besidesVideo
    \/ capture_read /\ UNCHANGED besidesVideo
    \/ capture_sleep /\ UNCHANGED besidesVideo
    \/ capture_count /\ UNCHANGED besidesVideo
    \/ capture_full /\ UNCHANGED besidesVideo
    \/ capture_evict /\ UNCHANGED besidesVideo
    \/ capture_put /\ UNCHANGED besidesVideo
    \/ read_frame_call /\ UNCHANGED besidesVideo
    \/ read_frame_empty /\ UNCHANGED besidesVideo
    \/ read_frame_get /\ UNCHANGED besidesVideo
    \/ read_frame_return /\ UNCHANGED besidesVideo

SpecVideo == InitVideo /\ [][NextVideo]_vars

\* _refine_peak_position on every profile and every index into it
InitRefine ==
    /\ \E intensity \in Profiles :
          \E idx \in 0..(Len(intensity) - 1) :
              refined = [intensity |-> intensity, idx |-> idx, position |-> None]
    /\ detection = None
    /\ peaks = None
    /\ CalIdle
    /\ DetIdle
    /\ SampIdle
    /\ StoreIdle
    /\ VideoIdle
    /\ UiIdle

NextRefine == refine_peak_position /\ UNCHANGED besidesPeak

SpecRefine == InitRefine /\ [][NextRefine]_vars

\* CalibrationModel(): the default order, which fit is handed again or not at all
InitDowngrade ==
    /\ CalInit(DefaultOrder)
    /\ DetIdle
    /\ SampIdle
    /\ PeakIdle
    /\ StoreIdle
    /\ VideoIdle
    /\ UiIdle

NextDowngrade ==
    \/ \E pixel \in Pixels, wavelength \in Wavelengths, label \in Labels :
          add_point(pixel, wavelength, label) /\ UNCHANGED besidesCal
    \/ \E index \in Indices : remove_point(index) /\ UNCHANGED besidesCal
    \/ clear_points /\ UNCHANGED besidesCal
    \/ \E order \in {None, <<DefaultOrder>>} : fit(order) /\ UNCHANGED besidesCal

SpecDowngrade == InitDowngrade /\ [][NextDowngrade]_vars

\* VideoManager(): not connected; connect and disconnect are called in any
\* order while the capture threads run
InitSession ==
    /\ frame_queue = <<>>
    /\ frame_count = 0
    /\ drop_count = 0
    /\ capture = None
    /\ reader = Reader("idle", None, None, 0, <<>>, None)
    /\ is_running = FALSE
    /\ cap = None
    /\ session = Session("idle", "__init__")
    /\ stale = None
    /\ CalIdle
    /\ DetIdle
    /\ SampIdle
    /\ PeakIdle
    /\ StoreIdle
    /\ UiIdle

NextSession ==
    \/ connect_call /\ UNCHANGED besidesVideo
    \/ connect_open /\ UNCHANGED besidesVideo
    \/ connect_start /\ UNCHANGED besidesVideo
    \/ disconnect_call /\ UNCHANGED besidesVideo
    \/ disconnect_stop /\ UNCHANGED besidesVideo
    \/ disconnect_join /\ UNCHANGED besidesVideo
    \/ disconnect_release /\ UNCHANGED besidesVideo
    \/ disconnect_clear /\ UNCHANGED besidesVideo
    \/ capture_loop /\ UNCHANGED besidesVideo
    \/ capture_read /\ UNCHANGED besidesVideo
    \/ capture_sleep /\ UNCHANGED besidesVideo
    \/ capture_count /\ UNCHANGED besidesVideo
    \/ capture_full /\ UNCHANGED besidesVideo
    \/ capture_evict /\ UNCHANGED besidesVideo
    \/ capture_put /\ UNCHANGED besidesVideo
    \/ stale_step /\ UNCHANGED besidesVideo

SpecSession == InitSession /\ [][NextSession]_vars

\* CalibrationWidget(): self.model = CalibrationModel(); MainWindow():
\* self.calibration_model = None
InitWidget ==
    /\ CalInit(DefaultOrder)
    /\ \E profiles_dir \in ProfileDirs : store = StoreInit(profiles_dir)
    /\ loaded = None
    /\ widget = Widget(1)
    /\ window = Window(None, None, FALSE, None)
    /\ DetIdle
    /\ SampIdle
    /\ PeakIdle
    /\ VideoIdle

besidesWidget == <<detVars, sampVars, peakVars, videoVars>>

NextWidget ==
    \/ /\ \E pixel \in SpinPixels, wavelength \in SpinWavelengths :
             on_add_point(pixel, wavelength)
       /\ UNCHANGED besidesWidget
    \/ \E index \in 0..(MaxRows - 1) : delete_point(index) /\ UNCHANGED besidesWidget
    \/ on_clear_points /\ UNCHANGED besidesWidget
    \/ \E order \in OrderSpin : on_fit(order) /\ UNCHANGED besidesWidget
    \/ \E name \in DialogNames : on_save_profile(name) /\ UNCHANGED besidesWidget
    \/ \E name \in DialogNames : on_load_profile(name) /\ UNCHANGED besidesWidget
    \/ on_analyze_static /\ UNCHANGED besidesWidget

SpecWidget == InitWidget /\ [][NextWidget]_vars

InitCal ==
    /\ \E order \in Orders : CalInit(order)
    /\ DetIdle
    /\ SampIdle
    /\ PeakIdle
    /\ StoreIdle
    /\ VideoIdle
    /\ UiIdle

NextCal ==
    \/ \E pixel \in Pixels, wavelength \in Wavelengths, label \in Labels :
          add_point(pixel, wavelength, label) /\ UNCHANGED besidesCal
    \/ \E index \in Indices : remove_point(index) /\ UNCHANGED besidesCal
    \/ clear_points /\ UNCHANGED besidesCal
    \/ \E order \in {None} \cup {<<k>> : k \in Orders} :
          fit(order) /\ UNCHANGED besidesCal
    \/ \E pixel \in Pixels : pixel_to_wavelength(pixel) /\ UNCHANGED besidesCal
    \/ \E wavelength \in Wavelengths, converged \in BOOLEAN :
          wavelength_to_pixel(wavelength, converged) /\ UNCHANGED besidesCal

SpecCal == InitCal /\ [][NextCal]_vars

SpecLine == InitCal /\ [][NextLine]_vars

(***************************************************************************)
(* Claims about CalibrationModel                                           *)
(***************************************************************************)
\* a step that is a call of op (every call records its own name in last)
Called(op) == last'.op = op /\ calVars' # calVars

\* C1: after add_point or clear_points, whatever the state before (Fitted
\* included), the model is Unfitted: is_fitted() is false and
\* get_fit_quality() is None until a later fit() succeeds; add_point appends
\* the new point at the end of the list and clear_points leaves it empty.
C1_MutationUnfits ==
    /\ [](since.op \in {"add_point", "clear_points"}
            => ~is_fitted /\ get_fit_quality = None)
    /\ [][/\ Called("add_point")
             => points' = Append(points, CalibrationPoint(last'.arg[1], last'.arg[2],
                                                          last'.arg[3]))
          /\ Called("clear_points") => points' = <<>>]_vars

\* C1 witness: add_point was called on a Fitted model
C1_Witness ==
    /\ last.op = "add_point"
    /\ since.op = "add_point"
    /\ since.fitted
    /\ Len(points) = since.n + 1

\* C2 as stated: after remove_point(index), for every index, is_fitted() is
\* false until fit() is called again and succeeds.
C2_AnyRemoveUnfits ==
    since.op = "remove_point" => ~is_fitted

\* C2 amended: after remove_point(index) with 0 <= index < len(points),
\* is_fitted() is false until fit() is called again and succeeds.
C2_InRangeRemoveUnfits ==
    (since.op = "remove_point" /\ 0 <= since.index /\ since.index < since.n)
        => ~is_fitted

\* C2 witness: a point was removed from a Fitted model
C2_Witness ==
    /\ since.op = "remove_point"
    /\ since.fitted
    /\ 0 <= since.index /\ since.index < since.n
    /\ Len(points) = since.n - 1

\* C3: fit on a model with fewer than 2 points, with or without an order
\* argument, returns False without raising and leaves points,
\* polynomial_order, coefficients and the fit quality as they were.
C3_FitNeedsTwoPoints ==
    [][(Called("fit") /\ Len(points) < 2)
         => /\ ~last'.ok
            /\ ~last'.raised
            /\ UNCHANGED <<points, polynomial_order, coefficients, fit_quality>>
            /\ ~is_fitted']_vars

\* C3 witness: fit(order) returned False on one point, with an order that is
\* not the model's
C3_Witness ==
    /\ last.op = "fit"
    /\ ~last.ok
    /\ Len(points) = 1
    /\ last.order # None
    /\ last.order[1] # polynomial_order

\* C4: fit with count >= 2 points and count < order + 1 succeeds with the
\* order lowered to min(order, count - 1): it returns True and leaves the
\* model Fitted with that polynomial_order.
C4_OrderDowngrade ==
    [][LET n == Len(points)
           requested == IF last'.order # None THEN last'.order[1] ELSE polynomial_order
       IN  (Called("fit") /\ n >= 2 /\ n < requested + 1)
             => /\ last'.ok
                /\ ~last'.raised
                /\ polynomial_order' = Min(requested, n - 1)
                /\ polynomial_order' < requested
                /\ is_fitted'
                /\ Len(coefficients') = polynomial_order' + 1
                /\ coefficients'[1].deg = polynomial_order'
                /\ fit_quality' # None]_vars

\* C4 witness: fit(3) succeeded on two points and left order 1
C4_Witness ==
    /\ last.op = "fit"
    /\ last.ok
    /\ last.order # None
    /\ Len(points) = 2
    /\ last.order[1] > polynomial_order
    /\ polynomial_order = 1
    /\ is_fitted

Mappings == {"pixel_to_wavelength", "wavelength_to_pixel"}

\* C5 as stated: a mapping returns a value only if a fit() has succeeded
\* since construction and since the last add_point / remove_point /
\* clear_points call; otherwise it raises and returns nothing.
C5_MappingNeedsFitSinceCall ==
    last.op \in Mappings
        => IF since.op = "fit"
             THEN ~last.raised /\ last.value # None
             ELSE last.raised /\ last.value = None

\* the last mutating call left the model as a successful fit made it: it was
\* that fit, or a remove_point whose index was out of range on a Fitted model
FitStands ==
    \/ since.op = "fit"
    \/ /\ since.op = "remove_point"
       /\ ~(0 <= since.index /\ since.index < since.n)
       /\ since.fitted

\* C5 amended: a mapping raises and returns nothing whenever no fit() has
\* succeeded since construction or since the last add_point, clear_points or
\* remove_point with an index in range; a value it returns is computed from
\* the coefficients fitted to the current points.
C5_MappingNeedsFit ==
    last.op \in Mappings
        => IF FitStands
             THEN /\ ~last.raised
                  /\ last.value # None
                  /\ is_fitted
                  /\ coefficients[1].x = PixelsOf(points)
                  /\ coefficients[1].y = WavelengthsOf(points)
                  /\ \/ last.op = "pixel_to_wavelength"
                        /\ last.value[1] = Polyval(coefficients, last.arg[1])
                     \/ last.op = "wavelength_to_pixel"
                        /\ \E converged \in BOOLEAN :
                              last.value[1] = InversePixel(last.arg[1], converged)
             ELSE /\ last.raised
                  /\ last.value = None
                  /\ ~is_fitted

\* C5 witness: a mapping raised on a model that was Fitted before its last
\* mutation
C5_Witness ==
    /\ last.op \in Mappings
    /\ last.raised
    /\ since.op \in {"add_point", "remove_point", "clear_points"}
    /\ since.fitted

\* the calibration points lie on one line
Collinear(pts) ==
    \A i, j, k \in 1..Len(pts) :
        (pts[j].pixel - pts[i].pixel) * (pts[k].wavelength - pts[i].wavelength)
          = (pts[k].pixel - pts[i].pixel) * (pts[j].wavelength - pts[i].wavelength)

DistinctPixels(pts) ==
    \A i, j \in 1..Len(pts) : i # j => pts[i].pixel # pts[j].pixel

\* C14: once points that lie exactly on one line, with distinct pixel
\* values, have been fitted at order 1 (two points with different pixels
\* always qualify), the fit reproduces every point: pixel_to_wavelength at a
\* calibration pixel returns that point's wavelength, every residual is zero
\* and R^2 is 1.
C14_LinearFitExact ==
    (is_fitted /\ polynomial_order = 1 /\ Collinear(points) /\ DistinctPixels(points))
        => /\ \A i \in 1..Len(points) :
                 (last.op = "pixel_to_wavelength" /\ last.arg[1] = points[i].pixel)
                     => /\ ~last.raised
                        /\ PolyvalNumber(last.value[1]).den # 0
                        /\ PolyvalNumber(last.value[1]).num
                             = points[i].wavelength * PolyvalNumber(last.value[1]).den
           /\ Len(fit_quality.residuals) = Len(points)
           /\ \A i \in 1..Len(points) :
                 /\ ResidualNumber(fit_quality.residuals[i]).num = 0
                 /\ ResidualNumber(fit_quality.residuals[i]).den # 0
           /\ RSquaredNumber(fit_quality.r_squared) = Float(1, 1)

\* C14 witness: three points on a line of slope 1 and intercept 4 fitted at
\* order 1, and the mapping asked at the pixel of the second point
C14_Witness ==
    /\ is_fitted
    /\ polynomial_order = 1
    /\ Len(points) = 3
    /\ Collinear(points)
    /\ DistinctPixels(points)
    /\ points[1].wavelength # points[2].wavelength
    /\ last.op = "pixel_to_wavelength"
    /\ last.arg[1] = points[2].pixel
    /\ ~last.raised

\* C15: wavelength_to_pixel on a Fitted model of order >= 2 raises when the
\* root-find of P(x) - wavelength = 0 has not converged: what it returns is
\* never an iterate fsolve did not converge to.
C15_NonConvergenceRaises ==
    (last.op = "wavelength_to_pixel" /\ is_fitted /\ polynomial_order >= 2)
        => (last.value # None => last.value[1].converged)

(***************************************************************************)
(* Claims about AutoLineDetector                                           *)
(***************************************************************************)
Detected == detected # None
Brightness == detected[1].brightness
Edge == detected[1].edge
Result == detected[1].result

\* C6 as stated: detect reports no line only when both the brightness method
\* and the edge method fail to produce a candidate; when either of them
\* produces a candidate, detect returns a candidate.
C6_NoLineOnlyIfBothFail ==
    Detected => (Result = None <=> (Brightness = None /\ Edge = None))

\* C6 amended: detect reports no line exactly when the brightness method
\* produces no candidate with confidence > 0.5 and the edge method produces
\* no candidate; a brightness candidate with confidence <= 0.5 is dropped.
C6_NoLineIffNoneClearsBar ==
    Detected =>
        /\ Result = None <=>
              /\ Brightness = None \/ ~Greater(Brightness[1].confidence, Float(1, 2))
              /\ Edge = None
        /\ Result # None => Result \in {Brightness, Edge}

\* C6 witness: the brightness method produced a candidate of confidence
\* <= 0.5, the edge method found nothing, and detect reported no line
C6_Witness ==
    /\ Detected
    /\ Brightness # None
    /\ ~Greater(Brightness[1].confidence, Float(1, 2))
    /\ detected[1].edge_used
    /\ Edge = None
    /\ Result = None

\* C7: on every uniform image, whatever its value (0 included), detect
\* reports no line: the brightness method returns no candidate that passes
\* the confidence gate and the edge method finds no segment.
C7_UniformImageNoLine ==
    (Detected /\ Uniform(gray)) => Result = None

\* the angle of a segment from the horizontal is <= 20 or >= 160 degrees,
\* the boundary included: |dy| <= tan(20 deg) * |dx|
WithinTwentyDegrees(seg) ==
    Abs(seg[4] - seg[2]) * 1000000 <= 363970 * Abs(seg[3] - seg[1])

\* four times the square of the score of C22: 1.5 x length or the length
StatedScore2(seg) ==
    IF WithinTwentyDegrees(seg) THEN 9 * Length2(seg) ELSE 4 * Length2(seg)

\* the segment the edge method returned
EdgeSegment ==
    <<Edge[1].points[1][1], Edge[1].points[1][2],
      Edge[1].points[2][1], Edge[1].points[2][2]>>

\* C22: when HoughLinesP reports segments, the edge method returns one of
\* them whose score is the greatest, the score being 1.5 x length for an
\* angle from the horizontal <= 20 or >= 160 degrees and the length
\* otherwise; its confidence is min(1, length / image width) with the
\* unweighted length of the returned segment.
C22_BestScoredSegment ==
    (Detected /\ detected[1].edge_used /\ detected[1].lines # None)
        => /\ Edge # None
           /\ \E n \in 1..Len(detected[1].lines) : detected[1].lines[n] = EdgeSegment
           /\ \A m \in 1..Len(detected[1].lines) :
                 StatedScore2(detected[1].lines[m]) <= StatedScore2(EdgeSegment)
           /\ Edge[1].confidence
                = PyMin(Float(1, 1),
                        Float(ISqrt(Length2(EdgeSegment) * 1000000), 1000 * Width(gray)))

\* C22 witness: of two reported segments the edge method returned the
\* shorter, horizontal one, listed second, with a confidence below 1
C22_Witness ==
    /\ Detected
    /\ detected[1].edge_used
    /\ detected[1].lines # None
    /\ Len(detected[1].lines) = 2
    /\ Edge # None
    /\ EdgeSegment = detected[1].lines[2]
    /\ WithinTwentyDegrees(EdgeSegment)
    /\ Length2(EdgeSegment) < Length2(detected[1].lines[1])
    /\ Less(Edge[1].confidence, Float(1, 1))

\* C19: detect runs the brightness method first.  It returns the brightness
\* candidate, without running the edge method, exactly when that method
\* produced a candidate of confidence > 0.5; it runs the edge method exactly
\* when the brightness method produced nothing or a candidate of confidence
\* <= 0.5, and then what detect reports is the edge method's outcome.
C19_DecisionTable ==
    Detected =>
        /\ ~detected[1].edge_used
              <=> (Brightness # None /\ Greater(Brightness[1].confidence, Float(1, 2)))
        /\ ~detected[1].edge_used
              => (Result = Brightness /\ Edge = None /\ detected[1].lines = None)
        /\ detected[1].edge_used
              <=> (Brightness = None \/ ~Greater(Brightness[1].confidence, Float(1, 2)))
        /\ detected[1].edge_used => Result = Edge

\* C19 witness: the brightness method produced a candidate of confidence
\* <= 0.5, the edge method ran and found a line, and detect reported the
\* edge method's line
C19_Witness ==
    /\ Detected
    /\ Brightness # None
    /\ ~Greater(Brightness[1].confidence, Float(1, 2))
    /\ detected[1].edge_used
    /\ Edge # None
    /\ Result = Edge
    /\ Result # Brightness

(***************************************************************************)
(* Claims about SpectrumSampler                                            *)
(***************************************************************************)
Sampled == profile # None

\* the path has two consecutive points at a distance of integer part 0
HasZeroSegment(line_points) ==
    \E i \in 1..(Len(line_points) - 1) :
        (line_points[i + 1][1] - line_points[i][1]) * (line_points[i + 1][1] - line_points[i][1])
        + (line_points[i + 1][2] - line_points[i][2]) * (line_points[i + 1][2] - line_points[i][2])
        < 1

\* the samples a path is due: the integer parts of its segments' lengths
RECURSIVE Due(_, _)
Due(line_points, n) ==
    IF n = 0 THEN 0
    ELSE Due(line_points, n - 1)
         + (CHOOSE r \in 0..(2 * (SampWidth + SampHeight + 2)) :
                LET dx == line_points[n + 1][1] - line_points[n][1]
                    dy == line_points[n + 1][2] - line_points[n][2]
                IN  r * r <= dx * dx + dy * dy /\ dx * dx + dy * dy < (r + 1) * (r + 1))

\* C8: extract_cross_section on a path of fewer than 2 points (0 or 1)
\* fails with an error and returns no profile.
C8_ShortPathRaises ==
    (Sampled /\ Len(sampling.line_points) < 2)
        => /\ profile[1].raised
           /\ profile[1].intensity = None
           /\ profile[1].positions = None

\* C8 witness: the call was made with a path of one point
C8_Witness ==
    /\ Sampled
    /\ Len(sampling.line_points) = 1
    /\ profile[1].raised

\* C9 as stated: sampling a path that contains a zero-length segment is
\* reported as an error and yields no profile.
C9_ZeroSegmentRaises ==
    (Sampled /\ Len(sampling.line_points) >= 2 /\ HasZeroSegment(sampling.line_points))
        => profile[1].raised

\* C9 amended: sampling a path of at least 2 points that contains a
\* zero-length segment raises nothing: a profile is returned to which that
\* segment contributes no sample (the empty profile if every segment has
\* integer length 0).
C9_ZeroSegmentIsSkipped ==
    (Sampled /\ Len(sampling.line_points) >= 2 /\ HasZeroSegment(sampling.line_points))
        => /\ ~profile[1].raised
           /\ Len(profile[1].intensity) = Due(sampling.line_points,
                                              Len(sampling.line_points) - 1)
           /\ Len(profile[1].positions) = Len(profile[1].intensity)

\* C9 witness: a polyline with a zero-length segment gave a non-empty profile
C9_Witness ==
    /\ Sampled
    /\ Len(sampling.line_points) = 3
    /\ sampling.line_points[1] = sampling.line_points[2]
    /\ ~profile[1].raised
    /\ Len(profile[1].intensity) > 0

\* C10: on an image whose pixels all have the value c, every profile sample
\* is the intensity of c (the mean, not the sum, of the thickness samples),
\* for every thickness and every path, samples outside the image included.
C10_UniformImageFlatProfile ==
    (Sampled /\ ~profile[1].raised /\ Uniform(sampling.image))
        => \A i \in 1..Len(profile[1].intensity) :
              profile[1].intensity[i]
                = SrgbToLinear(sampling.image[1][1]) * CoordScale * CoordScale

\* C10 witness: a uniform non-black image sampled with thickness >= 2 along a
\* path that leaves the image
C10_Witness ==
    /\ Sampled
    /\ ~profile[1].raised
    /\ Uniform(sampling.image)
    /\ sampling.image[1][1] = 128
    /\ sampling.thickness >= 2
    /\ \E i \in 1..Len(sampling.line_points) : sampling.line_points[i] = <<-1, 0>>
    /\ Len(profile[1].intensity) >= 2

\* C11: for every path of at least 2 points the call returns positions and
\* intensities of one length N; N is the sum over the segments of the integer
\* part of the segment's length, whatever the thickness (a segment of integer
\* length 0 adds nothing), and the positions are exactly 0, 1, ..., N-1, with
\* no gap and no restart where two segments of a polyline join.
C11_ProfileShape ==
    (Sampled /\ Len(sampling.line_points) >= 2)
        => /\ ~profile[1].raised
           /\ Len(profile[1].intensity) = Due(sampling.line_points,
                                              Len(sampling.line_points) - 1)
           /\ Len(profile[1].positions) = Len(profile[1].intensity)
           /\ \A i \in 1..Len(profile[1].positions) : profile[1].positions[i] = i - 1

\* C11 witness: a polyline of two segments of non-zero length, sampled with
\* thickness >= 2, whose positions run on across the join
C11_Witness ==
    /\ Sampled
    /\ Len(sampling.line_points) = 3
    /\ SegmentLength(sampling.line_points[1], sampling.line_points[2]) > 0
    /\ SegmentLength(sampling.line_points[2], sampling.line_points[3]) > 0
    /\ sampling.thickness >= 2
    /\ ~profile[1].raised
    /\ Len(profile[1].positions) >= 3
    /\ profile[1].positions[Len(profile[1].positions)] = Len(profile[1].positions) - 1

\* C20: for every thickness >= 1, thickness 1 included, the perpendicular
\* offsets used at each step of a sampled path are evenly spaced and centred
\* on the path: they sum to 0, so that the single sample of thickness 1 is
\* taken on the path itself.
C20_OffsetsCentred ==
    (Sampled /\ ~profile[1].raised /\ Len(profile[1].intensity) > 0)
        => LET offsets == Offsets(sampling.thickness)
           IN  /\ Sum(offsets) = 0
               /\ \A j \in 2..(Len(offsets) - 1) :
                      offsets[j] - offsets[j - 1] = offsets[j + 1] - offsets[j]

\* the square of the distance, in coordinate units, from the first point of
\* a straight path to the point where its k-th sample is taken
ArcLength2(line_points, length, k) ==
    LET at == LinePoint(line_points[1], line_points[2], length, k)
        ex == at[1] - line_points[1][1] * CoordScale
        ey == at[2] - line_points[1][2] * CoordScale
    IN  ex * ex + ey * ey

\* C21: along a straight segment the k-th sample (k = 0..N-1) is taken at
\* arc-length k pixels from the first endpoint (to within the two coordinate
\* units that the fixed-point coordinates can lose), so that the reported
\* position k is the arc-length of the sample.
C21_UnitArcLengthSteps ==
    (Sampled /\ Len(sampling.line_points) = 2 /\ ~profile[1].raised)
        => \A i \in 1..Len(profile[1].positions) :
              LET k == profile[1].positions[i]
                  d2 == ArcLength2(sampling.line_points, Len(profile[1].positions), k)
              IN  /\ (k * CoordScale - 2) * (k * CoordScale - 2) <= d2 \/ k = 0
                  /\ d2 <= (k * CoordScale + 2) * (k * CoordScale + 2)

\* the path runs from left to right along one row
HorizontalLR(line_points) ==
    /\ Len(line_points) >= 2
    /\ \A i \in 1..(Len(line_points) - 1) :
          /\ line_points[i + 1][2] = line_points[i][2]
          /\ line_points[i + 1][1] >= line_points[i][1]
    /\ line_points[1][1] < line_points[Len(line_points)][1]

\* the image is a horizontal gradient: non-decreasing in x on every row
NonDecreasingX(img) ==
    \A y \in 1..Height(img) : \A x \in 1..(Width(img) - 1) : img[y][x] <= img[y][x + 1]

\* the intensity of the pixel nearest to a path point, in profile units
IntensityAt(img, point) ==
    SrgbToLinear(img[Clamp(point[2], 0, Height(img) - 1) + 1]
                    [Clamp(point[1], 0, Width(img) - 1) + 1])
        * CoordScale * CoordScale

NonDecreasing(intensity) ==
    \A i \in 1..(Len(intensity) - 1) : intensity[i] <= intensity[i + 1]

\* C16 as stated: along a horizontal left-to-right path on an image that is
\* non-decreasing in x and constant in y, the profile is non-decreasing for
\* every thickness, and its first sample is below its last one whenever the
\* gradient is not flat.
C16_GradientStrictEnds ==
    (Sampled /\ ~profile[1].raised /\ HorizontalLR(sampling.line_points)
       /\ NonDecreasingX(sampling.image) /\ sampling.smoothing = None)
        => /\ NonDecreasing(profile[1].intensity)
           /\ ~Uniform(sampling.image)
                 => /\ Len(profile[1].intensity) >= 1
                    /\ profile[1].intensity[1]
                         < profile[1].intensity[Len(profile[1].intensity)]

\* C16 amended: without smoothing, the profile along such a path on such an
\* image is non-decreasing for every thickness.  A straight path (2 points)
\* of integer length >= 2 has its first sample at its first point and its
\* last sample at its last point, so first < last holds exactly when the
\* image is brighter at the last point than at the first (a point outside the
\* image takes the nearest edge pixel); a path of integer length 1 gives one
\* sample, first = last, however steep the gradient.
C16_GradientMonotone ==
    (Sampled /\ ~profile[1].raised /\ HorizontalLR(sampling.line_points)
       /\ NonDecreasingX(sampling.image) /\ sampling.smoothing = None)
        => LET intensity == profile[1].intensity
               line_points == sampling.line_points
           IN  /\ NonDecreasing(intensity)
               /\ Len(intensity) >= 1
               /\ (Len(line_points) = 2 /\ Len(intensity) >= 2)
                     => /\ intensity[1] = IntensityAt(sampling.image, line_points[1])
                        /\ intensity[Len(intensity)]
                             = IntensityAt(sampling.image, line_points[2])
               /\ (Len(line_points) = 2 /\ Len(intensity) = 1)
                     => intensity[1] = IntensityAt(sampling.image, line_points[1])

\* C16 witness: a gradient that is flat under the path and rises beyond it,
\* sampled with thickness >= 2 along a straight path of two samples
C16_Witness ==
    /\ Sampled
    /\ ~profile[1].raised
    /\ sampling.smoothing = None
    /\ sampling.line_points = <<(<<-1, 0>>), (<<1, 0>>)>>
    /\ NonDecreasingX(sampling.image)
    /\ ~Uniform(sampling.image)
    /\ sampling.thickness >= 2
    /\ Len(profile[1].intensity) = 2
    /\ profile[1].intensity[1] = profile[1].intensity[2]

\* C12: for one image, path and thickness, extract_color_strip fails exactly
\* when extract_cross_section fails, and otherwise returns a strip of height
\* strip_height with 3 channels and exactly one column for each profile
\* sample (strip width = profile length), for every path, the polylines with
\* zero-length segments included.
C12_StripMatchesProfile ==
    (profile # None /\ strip # None)
        => /\ strip[1].raised <=> profile[1].raised
           /\ ~strip[1].raised
                 => /\ strip[1].height = sampling.strip_height
                    /\ \A i \in 1..Len(strip[1].columns) : Len(strip[1].columns[i]) = 3
                    /\ Len(strip[1].columns) = Len(profile[1].intensity)

(***************************************************************************)
(* Claims about PeakDetector                                               *)
(***************************************************************************)
PeaksReturned == peaks # None /\ ~peaks[1].raised

\* how many entries of a list have a prominence of at least v
AtLeast(list, v) == Cardinality({i \in 1..Len(list) : list[i].prominence >= v})

SavedUnder(name) ==
    /\ SanitizeFilename(name) \in DOMAIN store.files
    /\ JsonLoad(store.files[SanitizeFilename(name)]).name = name

\* the model read back is the model that was written
SameModel(model) ==
    /\ model.polynomial_order = polynomial_order
    /\ model.points = points
    /\ model.coefficients = coefficients
    /\ model.fit_quality = fit_quality
    /\ (model.coefficients # None) <=> is_fitted

\* the dict of to_dict has the field names of the stored profiles
FieldNames(data) ==
    /\ DOMAIN data = {"polynomial_order", "points", "coefficients", "fit_quality"}
    /\ \A i \in 1..Len(data.points) :
          DOMAIN data.points[i] = {"pixel", "wavelength", "label"}
    /\ data.fit_quality # None
          => DOMAIN data.fit_quality = {"r_squared", "rmse", "max_error", "residuals"}

\* C17: for every model reached through add_point / remove_point /
\* clear_points / fit, from_dict(to_dict(m)) has the polynomial_order, the
\* points (pixel, wavelength, label, in order), the coefficients and the fit
\* quality of m, hence its is_fitted(); the dict has exactly the field names
\* polynomial_order, points[{pixel, wavelength, label}], coefficients and
\* fit_quality{r_squared, rmse, max_error, residuals}; and load_profile of a
\* name under which the model was saved returns such a model as well.
C17_RoundTrip ==
    /\ store.data # None => FieldNames(store.data[1])
    /\ (loaded # None /\ loaded[1].op = "from_dict")
          => (~loaded[1].raised /\ SameModel(loaded[1].model[1]))
    /\ (loaded # None /\ loaded[1].op = "load_profile" /\ SavedUnder(loaded[1].name))
          => (~loaded[1].raised /\ SameModel(loaded[1].model[1]))

(***************************************************************************)
(* Claims about VideoManager                                               *)
(***************************************************************************)
\* the capture thread holds a frame it has counted and not yet queued
InHand == IF capture.pc \in {"full", "evict", "put"} THEN 1 ELSE 0

\* C18: with one capture thread and one concurrent reader the queue is a
\* drop-oldest queue of size 2.  It never holds more than 2 frames.  The
\* capture thread never waits in put: when it comes to put, the queue has
\* room.  A frame leaves the queue at the capture thread's hand only after
\* that thread found the queue full; it is then the oldest queued frame and
\* it is counted in drop_count, which counts nothing else, and when the
\* queue is still full at that moment a frame does leave.  Every captured
\* frame is queued, as the newest: each counted frame is in the queue, in
\* the capture thread's hand on its way to the queue, taken by the reader or
\* counted as dropped.
C18_DropOldestQueue ==
    /\ [](Len(frame_queue) <= QueueMaxSize)
    /\ [](capture.pc = "put" => Len(frame_queue) < QueueMaxSize)
    /\ [](frame_count = Len(frame_queue) + InHand + reader.taken + drop_count)
    /\ [][(capture.pc = "full" /\ capture' # capture /\ Len(frame_queue) = QueueMaxSize)
             => capture'.pc = "evict"]_vars
    /\ [][(capture.pc = "evict" /\ capture' # capture /\ Len(frame_queue) = QueueMaxSize)
             => drop_count' = drop_count + 1]_vars
    /\ [][drop_count' # drop_count
             => /\ capture.pc = "evict"
                /\ drop_count' = drop_count + 1
                /\ frame_queue' = Tail(frame_queue)]_vars
    /\ [][(capture.pc = "put" /\ capture' # capture)
             => /\ frame_queue' = Append(frame_queue, capture.frame[1])
                /\ \A i \in 1..Len(frame_queue) : frame_queue[i] < capture.frame[1]]_vars

\* C18 witness: a third frame was captured while two were queued; the oldest
\* was evicted and counted, and the new frame is queued behind the other
C18_Witness ==
    /\ frame_count = 3
    /\ drop_count = 1
    /\ frame_queue = <<2, 3>>
    /\ reader.taken = 0

(***************************************************************************)
(* Claims about _refine_peak_position                                      *)
(***************************************************************************)
Refined == refined # None /\ refined.position # None

\* the three samples at the index of the call, and the denominator
Y1 == At(refined.intensity, refined.idx - 1)
Y2 == At(refined.intensity, refined.idx)
Y3 == At(refined.intensity, refined.idx + 1)
Denom == 2 * (Y1 - 2 * Y2 + Y3)
Interior == refined.idx >= 1 /\ refined.idx <= Len(refined.intensity) - 2

\* position - idx as a quotient: its numerator over position.den > 0
OffsetNum == refined.position[1].num - refined.idx * refined.position[1].den

\* C23: for a candidate at index i the reported position is i + offset with
\* offset = (y[i-1] - y[i+1]) / (2 * (y[i-1] - 2 y[i] + y[i+1])); when the
\* denominator is zero, when |offset| > 1, or when i is the first or the
\* last sample, the position is exactly i.  Hence |position - i| <= 1.
C23_SubPixelRefinement ==
    Refined =>
        /\ refined.position[1].den > 0
        /\ IF ~Interior THEN OffsetNum = 0
           ELSE IF Denom = 0 THEN OffsetNum = 0
           ELSE IF Abs(Y1 - Y3) > Abs(Denom) THEN OffsetNum = 0
           ELSE OffsetNum * Denom = (Y1 - Y3) * refined.position[1].den
        /\ Abs(OffsetNum) <= refined.position[1].den

\* C23 witness: the parabola's vertex was more than one sample away and the
\* refinement was discarded
C23_Witness ==
    /\ Refined
    /\ Interior
    /\ Denom # 0
    /\ Abs(Y1 - Y3) > Abs(Denom)
    /\ OffsetNum = 0

\* C30: at an interior index whose sample is not below either neighbour the
\* refinement moves the position by at most half a sample, and never away
\* from the higher neighbour: the offset is >= 0 when y[i+1] >= y[i-1] and
\* <= 0 when y[i-1] >= y[i+1].
C30_RefinementTowardsHigherNeighbour ==
    (Refined /\ Interior /\ Y2 >= Y1 /\ Y2 >= Y3) =>
        /\ 2 * Abs(OffsetNum) <= refined.position[1].den
        /\ Y3 >= Y1 => OffsetNum >= 0
        /\ Y1 >= Y3 => OffsetNum <= 0

\* C30 witness: a peak with a higher right neighbour than left one, moved
\* to the right by less than half a sample
C30_Witness ==
    /\ Refined
    /\ Interior
    /\ Y2 > Y3
    /\ Y3 > Y1
    /\ OffsetNum > 0
    /\ 2 * OffsetNum < refined.position[1].den

(***************************************************************************)
(* Claims about the states of CalibrationModel                             *)
(***************************************************************************)
\* C24: over every sequence of add_point / remove_point / clear_points / fit
\* (orders >= 1) from a fresh model, is_fitted() holds if and only if
\* get_fit_quality() is not None; and a Fitted model has at least 2 points,
\* polynomial_order <= number of points - 1, polynomial_order + 1
\* coefficients and as many residuals as points.
C24_FittedInvariant ==
    /\ is_fitted <=> get_fit_quality # None
    /\ is_fitted =>
          /\ Len(points) >= 2
          /\ polynomial_order <= Len(points) - 1
          /\ Len(coefficients) = polynomial_order + 1
          /\ Len(get_fit_quality.residuals) = Len(points)

\* C24 witness: a model fitted at an order lowered to fit its three points,
\* still Fitted after a remove_point that removed nothing
C24_Witness ==
    /\ is_fitted
    /\ Len(points) = 3
    /\ polynomial_order = 2
    /\ last.op = "remove_point"
    /\ last.index = 3

\* C25: remove_point with an index outside 0..len(points)-1 (a negative
\* index, any index on an empty model) changes nothing: the points,
\* polynomial_order, the coefficients, the fit quality and is_fitted() are as
\* before the call, and nothing is raised.
C25_OutOfRangeRemoveIsNoOp ==
    [][(last'.op = "remove_point" /\ last' # last
          /\ ~(0 <= last'.index /\ last'.index < Len(points)))
         => /\ points' = points
            /\ polynomial_order' = polynomial_order
            /\ coefficients' = coefficients
            /\ fit_quality' = fit_quality
            /\ (coefficients' # None) = is_fitted
            /\ ~last'.raised]_vars

\* C25 witness: remove_point(-1) was called on a Fitted model, which is
\* still Fitted
C25_Witness ==
    /\ last.op = "remove_point"
    /\ last.index = -1
    /\ since.op = "remove_point"
    /\ since.fitted
    /\ is_fitted

\* C26: polynomial_order changes in fit alone; a fit without an order
\* argument never raises it: it fits with min(polynomial_order, count - 1),
\* so an order that an earlier fit lowered stays lowered however many points
\* are added; polynomial_order rises only in a fit that is handed an order
\* at least as high.
C26_DowngradePersists ==
    /\ [][polynomial_order' # polynomial_order => (last'.op = "fit" /\ last'.ok)]_vars
    /\ [][(last'.op = "fit" /\ last' # last /\ last'.order = None)
            => /\ polynomial_order' <= polynomial_order
               /\ last'.ok => /\ polynomial_order' = Min(polynomial_order, Len(points) - 1)
                              /\ Len(coefficients') = polynomial_order' + 1]_vars
    /\ [][polynomial_order' > polynomial_order
            => /\ last'.order # None
               /\ polynomial_order' <= last'.order[1]]_vars

\* C26 witness: the model was made with the default order 2 and is handed
\* that order or none, so its order 1 is a lowered one; it has three points
\* and its last fit, without an order argument, fitted a line
C26_Witness ==
    /\ polynomial_order = 1
    /\ Len(points) = 3
    /\ last.op = "fit"
    /\ last.order = None
    /\ last.ok
    /\ Len(coefficients) = 2

(***************************************************************************)
(* connect / disconnect and the capture threads (SpecSession)              *)
(***************************************************************************)
\* disconnect() has returned and connect() has not been called since
Disconnected == session.pc = "idle" /\ session.op = "disconnect"

\* the thread holds a frame that it is about to count and enqueue
Putting(thread) ==
    IF thread = None THEN FALSE ELSE thread.pc \in {"count", "full", "evict", "put"}

\* C28, first part: after disconnect() returns, nothing is enqueued and
\* frame_count and drop_count stay 0 until the next connect()
C28_QuietAfterDisconnect ==
    Disconnected => frame_queue = <<>> /\ frame_count = 0 /\ drop_count = 0

\* C28, second part: once a later connect() has started its capture loop,
\* no loop started by an earlier connect() is still putting frames
C28_NoEarlierLoopPuts ==
    (is_running /\ capture # None) => ~Putting(stale)

\* C28: at most one capture loop is active at a time, also when the join in
\* disconnect times out: after disconnect() returns, nothing is enqueued
\* and frame_count / drop_count stay 0 until the next connect(), and after
\* a later connect() no capture loop of an earlier connect() is still
\* putting frames into the queue
C28_SingleCaptureLoop ==
    /\ C28_QuietAfterDisconnect
    /\ C28_NoEarlierLoopPuts

(***************************************************************************)
(* read_frame against the capture thread (SpecVideo)                       *)
(***************************************************************************)
\* read_frame is about to return
Returning == reader.pc = "return"

\* C27, first part: the frame returned is at least as new as the newest
\* frame that was queued when read_frame was called, and None is returned
\* only when none was queued
C27_ReturnsNewestQueued ==
    (Returning /\ reader.queued # <<>>) =>
        IF reader.frame = None THEN FALSE
        ELSE reader.frame[1] >= reader.queued[Len(reader.queued)]

\* C27, second part: the frames returned by successive read_frame calls are
\* strictly increasing in capture order
C27_StrictlyIncreasing ==
    (Returning /\ reader.frame # None /\ reader.latest # None) =>
        reader.frame[1] > reader.latest[1]

\* C27: with the capture thread and the reader running concurrently, each
\* read_frame call returns the newest frame present in the queue when it
\* drains it (or None if none is queued), and the frames returned by
\* successive calls are strictly increasing in capture order
C27_NewestFrameRead ==
    /\ C27_ReturnsNewestQueued
    /\ C27_StrictlyIncreasing

(***************************************************************************)
(* the calibration widget's model and the main window's (SpecWidget)       *)
(***************************************************************************)
\* the main window has received a model through calibration_updated
Received == window.calibration_model # None

\* C29, first part: the object the main window names is the object the
\* widget names
C29_SameObject ==
    Received => window.calibration_model = <<widget.model>>

\* C29, second part: a mapping that an analysis applies is the fit of the
\* object the widget names
C29_AnalysisAppliesCurrentFit ==
    (window'.wavelengths # window.wavelengths /\ window'.wavelengths # None) =>
        /\ window'.wavelengths[1].model = widget'.model
        /\ window'.wavelengths[1].coefficients = coefficients'

\* C29: once the main window has received a model through
\* calibration_updated, the model it uses in _on_analyze_static is always
\* the calibration widget's current model object, after any sequence of
\* widget actions; after the widget loads a profile, analysis never applies
\* the fit of the previously emitted model
C29_WindowFollowsWidget ==
    /\ []C29_SameObject
    /\ [][C29_AnalysisAppliesCurrentFit]_vars

====
